---- MODULE Spec2Model ----
(***************************************************************************)
(* Watch-session synchronisation of the svelte-check benchmark harness     *)
(* (src/test-instructions.md): the stdout marker detector, the three       *)
(* polling waits and runWatchModeBenchmark.                                *)
(*                                                                         *)
(* Text is modelled as a sequence of tokens.  Each token stands for a      *)
(* fixed piece of the marker strings of the source, so that a marker is a  *)
(* sequence of one or two tokens and can be cut by a chunk boundary.       *)
(* Offsets are counted in tokens, 0-based as String.lastIndexOf counts     *)
(* them, and -1 means "not found".                                         *)
(***************************************************************************)
EXTENDS Integers, Sequences, FiniteSets, TLC

(* ---------------------------------------------------------------- bounds *)

\* longest accumulated stdout, in tokens
MaxStdout == 3
\* longest chunk of one 'data' event, in tokens
MaxChunk == 2
\* most eligible .svelte files under srcDir
MaxFiles == 2
\* most calls of runWatchModeBenchmark for the label
MaxRuns == 1

\* the longest file content, the most files and the most calls of
\* addSpacesToFiles / removeSpacesFromFiles of the file-perturbation model
MaxContent == 2
MaxDisk == 2
MaxOps == 2

\* the most directory levels of a tree handed to getRandomSvelteFiles, the
\* root included
MaxDepth == 3

\* the longest list handed to median
MaxValues == 3

\* the most records one label has when the report is made
MaxRecords == 2

\* the most runs the individual benches start after the parallel bench
MaxRepeat == 1

\* the most eligible .svelte files of the worktree benchmark, and the longest
\* stdout its watcher accumulates between two resets, in tokens
MaxWtFiles == 20
MaxWtStdout == 2

\* the one-shot benchmark: the longest stdout of a child in tokens, the
\* latest time in milliseconds, and the most calls of runSvelteCheck
MaxOsStdout == 2
MaxOsTime == 2
MaxOsCalls == 2

(* --------------------------------------------------------------- markers *)

\* 'File change detected'
START_MARKER == <<"File change ", "detected">>

\* ['Watching for file changes', 'svelte-check found', 'found 0 errors', 'Found ']
\* 'svelte-check found' ends with the 'found' that 'found 0 errors' starts with.
END_MARKERS ==
  << <<"Watching for ", "file changes">>,
     <<"svelte-check ", "found">>,
     <<"found", " 0 errors">>,
     <<"Found ">> >>

\* the pieces of text the watched process can write; "\n" is any other text
Alphabet ==
  {"File change ", "detected", "Watching for ", "file changes",
   "svelte-check ", "found", " 0 errors", "Found ", "\n"}

\* what the watched process writes during a benchmark run: the start marker, in
\* two pieces, the shortest end marker, and other text
BenchAlphabet == {"File change ", "detected", "Found ", "\n"}

\* the chunks of one 'data' event that fit into room more tokens: every
\* non-empty text over alphabet of at most MaxChunk tokens
Chunks(alphabet, room) ==
  UNION {[1..n -> alphabet] : n \in 1..(IF room < MaxChunk THEN room ELSE MaxChunk)}

\* default value of the timeout parameter of the three waits, in ms
DefaultTimeout == 3000

\* the clock advances one timeout period at a time: Date.now() - startTime is
\* then below, equal to, or above the timeout
TickMs == DefaultTimeout

(* ----------------------------------------------------------------- state *)

VARIABLES
  watcher,           \* WatcherProcess: stdout, lastStartMarker, lastEndMarker
  wait,              \* the wait in progress: its closure variables and promise
  now,               \* Date.now()
  cuts,              \* history: the offsets of stdout at which a 'data' event ended
  pc,                \* position of runWatchModeBenchmark ("off": not running)
  kills,             \* number of watcher.process.kill() calls of the run
  run,               \* locals of runWatchModeBenchmark
  benchmarkResults,  \* benchmarkResults.get(label)
  benchmarkErrors,   \* benchmarkErrors: <<>> or <<message>> for the label
  disk,              \* the contents of the files handed to add/removeSpacesToFiles
  par,               \* runAllBenchmarksParallel: its scenarios and accumulators
  fs,                \* getRandomSvelteFiles: the directory tree and the call made
  report             \* median and the afterAll report: arguments and results

benchVars == <<pc, kills, run, benchmarkResults, benchmarkErrors>>
vars == <<watcher, wait, now, cuts, pc, kills, run, benchmarkResults, benchmarkErrors,
          disk, par, fs, report>>

(* ------------------------------------------------------ string functions *)

Max(S) == CHOOSE x \in S : \A y \in S : y <= x

\* String.prototype.lastIndexOf(marker): 0-based offset of the last occurrence
LastIndexOf(text, marker) ==
  LET occ == {i \in 1..(Len(text) - Len(marker) + 1) :
                SubSeq(text, i, i + Len(marker) - 1) = marker}
  IN  IF occ = {} THEN -1 ELSE Max(occ) - 1

(* ---------------------------------------------------- runSvelteCheckWatch *)

\* the watcher object as runSvelteCheckWatch creates it
runSvelteCheckWatch ==
  [stdout |-> <<>>, lastStartMarker |-> -1, lastEndMarker |-> -1]

\* for (const endMarker of END_MARKERS) { if (endPos > lastEndMarker) ... }
RECURSIVE EndMarkerLoop(_, _, _)
EndMarkerLoop(stdout, lastEndMarker, k) ==
  IF k > Len(END_MARKERS) THEN lastEndMarker
  ELSE LET endPos == LastIndexOf(stdout, END_MARKERS[k])
       IN  EndMarkerLoop(stdout,
                         IF endPos > lastEndMarker THEN endPos ELSE lastEndMarker,
                         k + 1)

\* the largest offset of any end marker in text, -1 if there is none
LastEndOf(text) ==
  Max({LastIndexOf(text, END_MARKERS[k]) : k \in 1..Len(END_MARKERS)})

\* variant: only the new chunk is searched, so a marker cut by a chunk
\* boundary is never seen
StdoutDataHandlerChunkOnly(w, chunk) ==
  LET startPos == LastIndexOf(chunk, START_MARKER)
      endPos   == LastEndOf(chunk)
      startAbs == IF startPos = -1 THEN -1 ELSE startPos + Len(w.stdout)
      endAbs   == IF endPos = -1 THEN -1 ELSE endPos + Len(w.stdout)
  IN  [stdout          |-> w.stdout \o chunk,
       lastStartMarker |-> IF startAbs > w.lastStartMarker
                           THEN startAbs ELSE w.lastStartMarker,
       lastEndMarker   |-> IF endAbs > w.lastEndMarker
                           THEN endAbs ELSE w.lastEndMarker]

\* variant: the offsets are assigned from the chunk's own positions
StdoutDataHandlerChunkPos(w, chunk) ==
  [stdout          |-> w.stdout \o chunk,
   lastStartMarker |-> LastIndexOf(chunk, START_MARKER),
   lastEndMarker   |-> LastEndOf(chunk)]

\* child.stdout.on('data', ...): append the chunk, then update both offsets
StdoutDataHandler(w, chunk) ==
  LET stdout   == w.stdout \o chunk
      startPos == LastIndexOf(stdout, START_MARKER)
  IN  [stdout          |-> stdout,
       lastStartMarker |-> IF startPos > w.lastStartMarker
                           THEN startPos ELSE w.lastStartMarker,
       lastEndMarker   |-> EndMarkerLoop(stdout, w.lastEndMarker, 1)]

\* variant: >= for >
isProcessingGe(w) == w.lastStartMarker >= w.lastEndMarker

isProcessing(w) == w.lastStartMarker > w.lastEndMarker

(* ------------------------------------------------------------- the waits *)

NoWait ==
  [fn |-> "none", startTime |-> 0, initialEndMarker |-> -1,
   checkInterval |-> FALSE, state |-> "pending", settles |-> 0, value |-> 0,
   callLen |-> 0, callStart |-> -1]

\* what a wait records when it is called.  checkInterval: the interval timer is
\* set; settles: calls of resolve/reject so far.  callLen and callStart are
\* history: the length of stdout and lastStartMarker at the call.
NewWait(fn, w, t) ==
  [fn |-> fn, startTime |-> t, initialEndMarker |-> -1,
   checkInterval |-> TRUE, state |-> "pending", settles |-> 0, value |-> 0,
   callLen |-> Len(w.stdout), callStart |-> w.lastStartMarker]

\* clearInterval(checkInterval); resolve(v)
Resolve(wt, v) ==
  [wt EXCEPT !.checkInterval = FALSE,
             !.state = IF wt.settles = 0 THEN "resolved" ELSE @,
             !.value = IF wt.settles = 0 THEN v ELSE @,
             !.settles = @ + 1]

\* clearInterval(checkInterval); reject(new Error(...))
Reject(wt) ==
  [wt EXCEPT !.checkInterval = FALSE,
             !.state = IF wt.settles = 0 THEN "rejected" ELSE @,
             !.settles = @ + 1]

waitForInitialCheck(w, t) == NewWait("waitForInitialCheck", w, t)

\* variant: the deadline is tested before the end marker
PollInitialCheckDeadlineFirst(wt, w, t) ==
  IF t - wt.startTime > DefaultTimeout THEN Reject(wt)
  ELSE IF w.lastEndMarker # -1 THEN Resolve(wt, 0)
  ELSE wt

\* the setInterval callback of waitForInitialCheck
PollInitialCheck(wt, w, t) ==
  IF w.lastEndMarker # -1 THEN Resolve(wt, 0)
  ELSE IF t - wt.startTime > DefaultTimeout THEN Reject(wt)
  ELSE wt

waitForPendingCheck(w, t) ==
  IF ~isProcessing(w)
  THEN [NewWait("waitForPendingCheck", w, t) EXCEPT
          !.checkInterval = FALSE, !.state = "resolved", !.settles = 1]
  ELSE NewWait("waitForPendingCheck", w, t)

\* variant: no deadline
PollPendingCheckNoDeadline(wt, w, t) ==
  IF ~isProcessing(w) THEN Resolve(wt, 0) ELSE wt

\* the setInterval callback of waitForPendingCheck
PollPendingCheck(wt, w, t) ==
  IF ~isProcessing(w) THEN Resolve(wt, 0)
  ELSE IF t - wt.startTime > DefaultTimeout THEN Reject(wt)
  ELSE wt

waitForNextCheck(w, t) ==
  [NewWait("waitForNextCheck", w, t) EXCEPT !.initialEndMarker = w.lastEndMarker]

\* variant: >= for > in the comparison with initialEndMarker
PollNextCheckGe(wt, w, t) ==
  IF w.lastEndMarker >= wt.initialEndMarker /\ ~isProcessing(w)
  THEN Resolve(wt, t - wt.startTime)
  ELSE IF t - wt.startTime > DefaultTimeout THEN Reject(wt)
  ELSE wt

\* variant: the timeout is tested before the completion
PollNextCheckDeadlineFirst(wt, w, t) ==
  IF t - wt.startTime > DefaultTimeout THEN Reject(wt)
  ELSE IF w.lastEndMarker > wt.initialEndMarker /\ ~isProcessing(w)
  THEN Resolve(wt, t - wt.startTime)
  ELSE wt

\* the setInterval callback of waitForNextCheck
PollNextCheck(wt, w, t) ==
  IF w.lastEndMarker > wt.initialEndMarker /\ ~isProcessing(w)
  THEN Resolve(wt, t - wt.startTime)
  ELSE IF t - wt.startTime > DefaultTimeout THEN Reject(wt)
  ELSE wt

(* ------------------------------------------------------ detector actions *)

\* runWatchModeBenchmark is between two awaits, where no event is delivered,
\* or has returned, and nothing reads the killed watcher any more
Running == pc \notin {"off", "awaitInitial", "awaitAdd", "awaitRemove"}

\* a settled wait's continuation runs before the next event is delivered
Resuming == pc \in {"awaitInitial", "awaitAdd", "awaitRemove"} /\ wait.state # "pending"

EventLoopFree == ~Running /\ ~Resuming

\* the watched process writes a chunk: the 'data' listener runs
Feed(chunk) ==
  /\ EventLoopFree
  /\ watcher' = StdoutDataHandler(watcher, chunk)
  /\ UNCHANGED <<wait, now, disk, par, fs, report>>
  /\ UNCHANGED benchVars

StdoutData(chunk) == Feed(chunk) /\ UNCHANGED cuts

\* the same, remembering where the chunk ended
StdoutDataCut(chunk) ==
  /\ Feed(chunk)
  /\ cuts' = cuts \cup {Len(watcher.stdout) + Len(chunk)}

\* time passes while a wait polls; past the deadline more time changes nothing
Tick ==
  /\ EventLoopFree
  /\ wait.checkInterval
  /\ now - wait.startTime <= DefaultTimeout
  /\ now' = now + TickMs
  /\ UNCHANGED <<watcher, wait>>
  /\ UNCHANGED <<cuts, fs, report, disk, par, benchVars>>

CallWaitForInitialCheck ==
  /\ pc = "off" /\ wait.fn = "none"
  /\ wait' = waitForInitialCheck(watcher, now)
  /\ UNCHANGED <<watcher, now>>
  /\ UNCHANGED <<cuts, fs, report, disk, par, benchVars>>

CallWaitForPendingCheck ==
  /\ pc = "off" /\ wait.fn = "none"
  /\ wait' = waitForPendingCheck(watcher, now)
  /\ UNCHANGED <<watcher, now>>
  /\ UNCHANGED <<cuts, fs, report, disk, par, benchVars>>

CallWaitForNextCheck ==
  /\ pc = "off" /\ wait.fn = "none"
  /\ wait' = waitForNextCheck(watcher, now)
  /\ UNCHANGED <<watcher, now>>
  /\ UNCHANGED <<cuts, fs, report, disk, par, benchVars>>

\* the interval timer of the wait in progress fires
IntervalInitial ==
  /\ EventLoopFree
  /\ wait.fn = "waitForInitialCheck" /\ wait.checkInterval
  /\ wait' = PollInitialCheck(wait, watcher, now)
  /\ UNCHANGED <<watcher, now>>
  /\ UNCHANGED <<cuts, fs, report, disk, par, benchVars>>

IntervalPending ==
  /\ EventLoopFree
  /\ wait.fn = "waitForPendingCheck" /\ wait.checkInterval
  /\ wait' = PollPendingCheck(wait, watcher, now)
  /\ UNCHANGED <<watcher, now>>
  /\ UNCHANGED <<cuts, fs, report, disk, par, benchVars>>

IntervalNext ==
  /\ EventLoopFree
  /\ wait.fn = "waitForNextCheck" /\ wait.checkInterval
  /\ wait' = PollNextCheck(wait, watcher, now)
  /\ UNCHANGED <<watcher, now>>
  /\ UNCHANGED <<cuts, fs, report, disk, par, benchVars>>

(* ------------------------------------------------- runWatchModeBenchmark *)

\* the locals of runWatchModeBenchmark.  watcher: "null" until the process is
\* spawned; files: files.length; spaces: the ' ' the run has appended to each
\* selected file and not removed; error: the error thrown into the catch block.
\* History: adds and removes count the calls of addSpacesToFiles and
\* removeSpacesFromFiles, busyAtAdd and busyAtRemove are isProcessing(watcher)
\* at those calls, stored is the length of benchmarkResults at the call of the run.
NoRun ==
  [startTime |-> 0, watcher |-> "null", initialRunTime |-> 0, files |-> 0,
   roundStart |-> 0, changeTimings |-> <<>>, spaces |-> 0, error |-> "none",
   adds |-> 0, removes |-> 0, busyAtAdd |-> FALSE, busyAtRemove |-> FALSE,
   stored |-> 0]

\* variant: nothing is returned when fewer files exist than are asked for
getRandomSvelteFilesExact(n, count) == IF count <= n THEN count ELSE 0

\* shuffled.slice(0, Math.min(count, shuffled.length)).length for n eligible files
getRandomSvelteFiles(n, count) == IF count < n THEN count ELSE n

Sum(seq) ==
  LET RECURSIVE S(_)
      S(i) == IF i = 0 THEN 0 ELSE seq[i] + S(i - 1)
  IN  S(Len(seq))

\* [...values].sort((a, b) => a - b)
SortAsc(values) ==
  LET RECURSIVE Ins(_, _)
      Ins(sorted, x) ==
        IF sorted = <<>> THEN <<x>>
        ELSE IF x < Head(sorted) THEN <<x>> \o sorted
        ELSE <<Head(sorted)>> \o Ins(Tail(sorted), x)
      RECURSIVE Go(_, _)
      Go(i, acc) == IF i > Len(values) THEN acc ELSE Go(i + 1, Ins(acc, values[i]))
  IN  Go(1, <<>>)

\* variant: the upper middle element is returned for every non-empty list
medianUpperMiddle(values) ==
  IF Len(values) = 0 THEN 0
  ELSE SortAsc(values)[(Len(values) \div 2) + 1]

\* median(values); every duration is a multiple of TickMs, which is even, so
\* the mean of two of them is a whole number
median(values) ==
  IF Len(values) = 0 THEN 0
  ELSE LET sorted == SortAsc(values)
           mid    == Len(sorted) \div 2
       IN  IF Len(sorted) % 2 = 1 THEN sorted[mid + 1]
           ELSE (sorted[mid] + sorted[mid + 1]) \div 2

\* variant: the minimum and the maximum are the first and the last sample
StatsUnsorted(r, t) ==
  LET ct == r.changeTimings
  IN  [totalDuration     |-> t - r.startTime,
       initialRunTime    |-> r.initialRunTime,
       changeTimings     |-> ct,
       averageChangeTime |-> Sum(ct) \div Len(ct),
       medianChangeTime  |-> median(ct),
       minChangeTime     |-> ct[1],
       maxChangeTime     |-> ct[Len(ct)]]

\* the stats object of the success path
Stats(r, t) ==
  LET ct == r.changeTimings
  IN  [totalDuration     |-> t - r.startTime,
       initialRunTime    |-> r.initialRunTime,
       changeTimings     |-> ct,
       averageChangeTime |-> Sum(ct) \div Len(ct),
       medianChangeTime  |-> median(ct),
       minChangeTime     |-> SortAsc(ct)[1],
       maxChangeTime     |-> SortAsc(ct)[Len(ct)]]

\* variant: the failure record keeps the measured initial-run duration
FailedStatsKeepInitial(r, t) ==
  [totalDuration     |-> t - r.startTime,
   initialRunTime    |-> r.initialRunTime,
   changeTimings     |-> <<>>,
   averageChangeTime |-> 0,
   medianChangeTime  |-> 0,
   minChangeTime     |-> 0,
   maxChangeTime     |-> 0]

\* variant: the failure record keeps the samples of the rounds that completed
FailedStatsKeepSamples(r, t) ==
  [totalDuration     |-> t - r.startTime,
   initialRunTime    |-> 0,
   changeTimings     |-> r.changeTimings,
   averageChangeTime |-> 0,
   medianChangeTime  |-> 0,
   minChangeTime     |-> 0,
   maxChangeTime     |-> 0]

\* the failedStats object of the catch block
FailedStats(r, t) ==
  [totalDuration     |-> t - r.startTime,
   initialRunTime    |-> 0,
   changeTimings     |-> <<>>,
   averageChangeTime |-> 0,
   medianChangeTime  |-> 0,
   minChangeTime     |-> 0,
   maxChangeTime     |-> 0]

\* runWatchModeBenchmark is called: spawn the watcher, await waitForInitialCheck
BenchCall ==
  /\ pc \in {"start", "returned"}
  /\ Len(benchmarkResults) < MaxRuns
  /\ watcher' = runSvelteCheckWatch
  /\ kills' = 0
  /\ run' = [NoRun EXCEPT !.startTime = now, !.watcher = "spawned",
                          !.stored = Len(benchmarkResults)]
  /\ wait' = waitForInitialCheck(runSvelteCheckWatch, now)
  /\ pc' = "awaitInitial"
  /\ UNCHANGED <<now, cuts, fs, report, disk, par, benchmarkResults, benchmarkErrors>>

\* an awaited wait rejected: control enters the catch block
ThrowFromWait(msg) ==
  /\ wait.state = "rejected"
  /\ run' = [run EXCEPT !.error = msg]
  /\ pc' = "catch"
  /\ UNCHANGED <<watcher, wait, now, cuts, fs, report, disk, par, kills, benchmarkResults, benchmarkErrors>>

\* variant: the empty file list is noticed only after addSpacesToFiles was called
AfterInitialThrowLate(n) ==
  /\ pc = "awaitInitial" /\ wait.state = "resolved"
  /\ LET files == getRandomSvelteFiles(n, 5)
          r     == [run EXCEPT !.initialRunTime = now - run.startTime,
                               !.files = files]
     IN  IF files = 0
         THEN /\ run' = [r EXCEPT !.error = "No svelte files found",
                                   !.adds = @ + 1]
              /\ pc' = "catch"
              /\ wait' = wait
         ELSE /\ run' = [r EXCEPT !.roundStart = now, !.spaces = @ + 1,
                                   !.adds = @ + 1,
                                   !.busyAtAdd = isProcessing(watcher)]
              /\ wait' = waitForNextCheck(watcher, now)
              /\ pc' = "awaitAdd"
  /\ UNCHANGED <<watcher, now, cuts, fs, report, disk, par, kills, benchmarkResults, benchmarkErrors>>

\* waitForInitialCheck resolved: select the files; with none, throw; otherwise
\* addSpacesToFiles(files) and waitForNextCheck(watcher) are called in turn
AfterInitial(n) ==
  /\ pc = "awaitInitial" /\ wait.state = "resolved"
  /\ LET files == getRandomSvelteFiles(n, 5)
          r     == [run EXCEPT !.initialRunTime = now - run.startTime,
                               !.files = files]
     IN  IF files = 0
         THEN /\ run' = [r EXCEPT !.error = "No svelte files found"]
              /\ pc' = "catch"
              /\ wait' = wait
         ELSE /\ run' = [r EXCEPT !.roundStart = now, !.spaces = @ + 1,
                                   !.adds = @ + 1,
                                   !.busyAtAdd = isProcessing(watcher)]
              /\ wait' = waitForNextCheck(watcher, now)
              /\ pc' = "awaitAdd"
  /\ UNCHANGED <<watcher, now, cuts, fs, report, disk, par, kills, benchmarkResults, benchmarkErrors>>

\* variant: a timeout of waitForInitialCheck is swallowed and the add round starts
InitialTimedOutContinue ==
  /\ pc = "awaitInitial" /\ wait.state = "rejected"
  /\ run' = [run EXCEPT !.files = 1, !.roundStart = now, !.spaces = @ + 1,
                        !.adds = @ + 1,
                        !.busyAtAdd = isProcessing(watcher)]
  /\ wait' = waitForNextCheck(watcher, now)
  /\ pc' = "awaitAdd"
  /\ UNCHANGED <<watcher, now, cuts, fs, report, disk, par, kills, benchmarkResults, benchmarkErrors>>

InitialTimedOut ==
  /\ pc = "awaitInitial"
  /\ ThrowFromWait("Timeout waiting for initial check to complete")

\* the add round resolved: record addTime, then removeSpacesFromFiles(files)
\* and waitForNextCheck(watcher) are called in turn
AfterAdd ==
  /\ pc = "awaitAdd" /\ wait.state = "resolved"
  /\ run' = [run EXCEPT !.changeTimings = Append(@, now - run.roundStart),
                        !.roundStart = now,
                        !.spaces = 0,
                        !.removes = @ + 1,
                        !.busyAtRemove = isProcessing(watcher)]
  /\ wait' = waitForNextCheck(watcher, now)
  /\ pc' = "awaitRemove"
  /\ UNCHANGED <<watcher, now, cuts, fs, report, disk, par, kills, benchmarkResults, benchmarkErrors>>

\* variant: a timeout of the add round is swallowed and the remove round starts
AddTimedOutContinue ==
  /\ pc = "awaitAdd" /\ wait.state = "rejected"
  /\ run' = [run EXCEPT !.roundStart = now,
                        !.spaces = 0,
                        !.removes = @ + 1,
                        !.busyAtRemove = isProcessing(watcher)]
  /\ wait' = waitForNextCheck(watcher, now)
  /\ pc' = "awaitRemove"
  /\ UNCHANGED <<watcher, now, cuts, fs, report, disk, par, kills, benchmarkResults, benchmarkErrors>>

AddTimedOut ==
  /\ pc = "awaitAdd"
  /\ ThrowFromWait("Timeout waiting for next check to complete")

\* variant: the success path goes on to store the stats without the kill
AfterRemoveNoKill ==
  /\ pc = "awaitRemove" /\ wait.state = "resolved"
  /\ run' = [run EXCEPT !.changeTimings = Append(@, now - run.roundStart)]
  /\ pc' = "store"
  /\ UNCHANGED <<watcher, wait, now, cuts, fs, report, disk, par, kills, benchmarkResults, benchmarkErrors>>

\* the remove round resolved: record removeTime
AfterRemove ==
  /\ pc = "awaitRemove" /\ wait.state = "resolved"
  /\ run' = [run EXCEPT !.changeTimings = Append(@, now - run.roundStart)]
  /\ pc' = "kill"
  /\ UNCHANGED <<watcher, wait, now, cuts, fs, report, disk, par, kills, benchmarkResults, benchmarkErrors>>

RemoveTimedOut ==
  /\ pc = "awaitRemove"
  /\ ThrowFromWait("Timeout waiting for next check to complete")

\* watcher.process.kill() of the success path
KillWatcher ==
  /\ pc = "kill"
  /\ kills' = kills + 1
  /\ pc' = "store"
  /\ UNCHANGED <<watcher, wait, now, cuts, fs, report, disk, par, run, benchmarkResults, benchmarkErrors>>

\* benchmarkResults.get(label).push(stats)
StoreStats ==
  /\ pc = "store"
  /\ benchmarkResults' = Append(benchmarkResults, Stats(run, now))
  /\ pc' = "return"
  /\ UNCHANGED <<watcher, wait, now, cuts, fs, report, disk, par, kills, run, benchmarkErrors>>

\* variant: the catch block does not kill the watcher
CatchNoKill ==
  /\ pc = "catch"
  /\ benchmarkErrors' = <<run.error>>
  /\ pc' = "catchStore"
  /\ UNCHANGED <<watcher, wait, now, cuts, fs, report, disk, par, kills, run, benchmarkResults>>

\* catch: if (watcher) watcher.process.kill(); benchmarkErrors.set(label, error)
CatchKill ==
  /\ pc = "catch"
  /\ kills' = IF run.watcher # "null" THEN kills + 1 ELSE kills
  /\ benchmarkErrors' = <<run.error>>
  /\ pc' = "catchStore"
  /\ UNCHANGED <<watcher, wait, now, cuts, fs, report, disk, par, run, benchmarkResults>>

\* variant: the catch block returns failedStats without pushing it
StoreFailedStatsNoPush ==
  /\ pc = "catchStore"
  /\ pc' = "return"
  /\ UNCHANGED <<watcher, wait, now, cuts, fs, report, disk, par, kills, run, benchmarkResults, benchmarkErrors>>

\* catch: benchmarkResults.get(label).push(failedStats)
StoreFailedStats ==
  /\ pc = "catchStore"
  /\ benchmarkResults' = Append(benchmarkResults, FailedStats(run, now))
  /\ pc' = "return"
  /\ UNCHANGED <<watcher, wait, now, cuts, fs, report, disk, par, kills, run, benchmarkErrors>>

\* return stats / return failedStats: the promise of the run resolves
Return ==
  /\ pc = "return"
  /\ pc' = "returned"
  /\ UNCHANGED <<watcher, wait, now, cuts, fs, report, disk, par, kills, run, benchmarkResults, benchmarkErrors>>

(* ================================================== getRandomSvelteFiles *)

\* entry names, as the sequence of their pieces: the first piece is '.' for a
\* name that starts with '.', the last is '.svelte' for one that ends in it
DirNames ==
  { <<"src">>, <<"node_modules">>, <<"worktrees">>, <<".", "git">>, <<"d", ".svelte">> }

FileNames == { <<"a", ".svelte">>, <<"b", ".ts">> }

\* the directory the benchmark passes as dir
RootName == <<"src">>

\* the count runWatchModeBenchmark asks for
RequestedCount == 5

\* entry.name.startsWith('.')
StartsWithDot(name) == name[1] = "."

\* entry.name.endsWith('.svelte')
EndsWithSvelte(name) == name[Len(name)] = ".svelte"

\* the test a directory entry passes to be descended into
Descended(name) ==
  ~StartsWithDot(name) /\ name # <<"node_modules">> /\ name # <<"worktrees">>

\* the elements of a set of names as a sequence, in some order (readdirSync)
RECURSIVE SeqOf(_)
SeqOf(set) ==
  IF set = {} THEN <<>>
  ELSE LET x == CHOOSE y \in set : TRUE IN <<x>> \o SeqOf(set \ {x})

\* a tree is a sequence of levels: level 1 is dir itself, level k + 1 the
\* subdirectory of level k; a level has the name of its directory and the
\* names of the files in it.  join(currentDir, entry.name) is the sequence of
\* the names from the root on.
DirPath(tree, k) == [j \in 1..k |-> tree[j].dir]

\* variant: every directory is descended into, whatever its name
RECURSIVE findSvelteFilesNoSkip(_, _)
findSvelteFilesNoSkip(tree, k) ==
  LET files == SeqOf({f \in tree[k].files : EndsWithSvelte(f)})
      here  == [i \in 1..Len(files) |-> Append(DirPath(tree, k), files[i])]
  IN  IF k < Len(tree)
      THEN findSvelteFilesNoSkip(tree, k + 1) \o here
      ELSE here

\* findSvelteFiles(currentDir) for the directory at level k: the paths pushed
\* to svelteFiles by the loop over its entries.  A directory entry that
\* passes the name test is descended into; any other entry is pushed if it is
\* a file whose name ends in '.svelte'
RECURSIVE findSvelteFiles(_, _)
findSvelteFiles(tree, k) ==
  LET files == SeqOf({f \in tree[k].files : EndsWithSvelte(f)})
      here  == [i \in 1..Len(files) |-> Append(DirPath(tree, k), files[i])]
  IN  IF k < Len(tree) /\ Descended(tree[k + 1].dir)
      THEN findSvelteFiles(tree, k + 1) \o here
      ELSE here

\* svelteFiles.sort(() => Math.random() - 0.5): some rearrangement, given by
\* the permutation perm of the indices
Shuffled(svelteFiles, perm) == [i \in 1..Len(svelteFiles) |-> svelteFiles[perm[i]]]

\* shuffled.slice(0, Math.min(count, shuffled.length))
SliceShuffled(shuffled, count) ==
  SubSeq(shuffled, 1, getRandomSvelteFiles(Len(shuffled), count))

\* getRandomSvelteFiles not called
NoFs == [tree |-> <<>>, exists |-> FALSE, count |-> 0, result |-> <<>>, called |-> FALSE]

\* nothing aggregated.  values, result, after: the argument of a call of
\* median, its result and the argument after the call
NoReport == [called |-> "none", values |-> <<>>, result |-> 0, after |-> <<>>]

\* getRandomSvelteFiles(dir, count) is called; if (!existsSync(dir)) the
\* search returns at once and svelteFiles stays empty
CallGetRandomSvelteFiles(count) ==
  /\ pc = "select" /\ ~fs.called
  /\ LET svelteFiles == IF fs.exists THEN findSvelteFiles(fs.tree, 1) ELSE <<>>
     IN  \E perm \in Permutations(1..Len(svelteFiles)) :
           fs' = [fs EXCEPT !.count = count,
                            !.result = SliceShuffled(Shuffled(svelteFiles, perm), count),
                            !.called = TRUE]
  /\ UNCHANGED <<watcher, wait, now, cuts, report, disk, par, benchVars>>

(* ======================================================= median, report *)

\* the durations of the lists handed to median: multiples of 100, so that the
\* mean of two of them is a whole number
Durations == {100, 200, 300, 400}

\* median(values) is called: it sorts the copy [...values], so the caller's
\* array is as it was
CallMedian ==
  /\ pc = "median" /\ report.called = "none"
  /\ report' = [report EXCEPT !.called = "median",
                              !.result = median(report.values),
                              !.after = report.values]
  /\ UNCHANGED <<watcher, wait, now, cuts, fs, disk, par, benchVars>>

(* ===================================================== file perturbation *)

\* the characters of a file content: a non-blank character, the ' ' the
\* benchmark appends, and a line terminator
FileChars == {"x", " ", "\n"}

\* the white space String.prototype.trimEnd removes, as far as FileChars and
\* the usual text files go
WhiteSpace == {" ", "\t", "\n", "\r"}

\* readFileSync(file, 'utf-8'): the contents of at most n characters
Contents(n) == UNION {[1..k -> FileChars] : k \in 0..n}

\* content + ' '
AppendSpace(content) == content \o <<" ">>

\* variant: only one trailing white-space character is removed
trimEndOne(content) ==
  IF content = <<>> THEN <<>>
  ELSE IF content[Len(content)] \in WhiteSpace
       THEN SubSeq(content, 1, Len(content) - 1)
       ELSE content

\* content.trimEnd()
RECURSIVE trimEnd(_)
trimEnd(content) ==
  IF content = <<>> THEN <<>>
  ELSE IF content[Len(content)] \in WhiteSpace
       THEN trimEnd(SubSeq(content, 1, Len(content) - 1))
       ELSE content

\* addSpacesToFiles(files), on the contents of the files
addSpacesToFiles(files) == [i \in 1..Len(files) |-> AppendSpace(files[i])]

\* removeSpacesFromFiles(files), on the contents of the files
removeSpacesFromFiles(files) == [i \in 1..Len(files) |-> trimEnd(files[i])]

\* no file selected.  original: the contents before the first call; content:
\* the contents now; ops: the calls made so far, in order
NoDisk == [original |-> <<>>, content |-> <<>>, ops |-> <<>>]

\* a call of addSpacesToFiles(files) on the selected files
AddSpacesToFiles ==
  /\ pc = "files"
  /\ Len(disk.ops) < MaxOps
  /\ disk' = [disk EXCEPT !.content = addSpacesToFiles(@),
                          !.ops = Append(@, "add")]
  /\ UNCHANGED <<watcher, wait, now, cuts, fs, report, par, benchVars>>

\* a call of removeSpacesFromFiles(files) on the selected files
RemoveSpacesFromFiles ==
  /\ pc = "files"
  /\ Len(disk.ops) < MaxOps
  /\ disk' = [disk EXCEPT !.content = removeSpacesFromFiles(@),
                          !.ops = Append(@, "remove")]
  /\ UNCHANGED <<watcher, wait, now, cuts, fs, report, par, benchVars>>

(* ================================================== runAllBenchmarksParallel *)

\* benchmarkConfigs; a path is the sequence of its segments below '.'
benchmarkConfigs ==
  << [label   |-> "npm-no-worktrees",
      command |-> "node_modules/.bin/svelte-check",
      cwd     |-> <<"temp", "no-worktrees">>,
      srcDir  |-> <<"temp", "no-worktrees", "src">>],
     [label   |-> "npm-with-worktrees",
      command |-> "node_modules/.bin/svelte-check",
      cwd     |-> <<"temp", "with-worktrees">>,
      srcDir  |-> <<"temp", "with-worktrees", "src">>],
     [label   |-> "custom-no-worktrees",
      command |-> "../../../language-tools/packages/svelte-check/bin/svelte-check",
      cwd     |-> <<"temp", "no-worktrees">>,
      srcDir  |-> <<"temp", "no-worktrees", "src">>],
     [label   |-> "custom-with-worktrees",
      command |-> "../../../language-tools/packages/svelte-check/bin/svelte-check",
      cwd     |-> <<"temp", "with-worktrees">>,
      srcDir  |-> <<"temp", "with-worktrees", "src">>] >>

Scenarios == 1..Len(benchmarkConfigs)

SrcDirs == {benchmarkConfigs[i].srcDir : i \in Scenarios}

\* the delay of the setTimeout raced against each run, and the period of the
\* setInterval of the waits
BenchmarkTimeout == 120000
PollMs == 100

\* the watcher spawned with cwd sees a write to a file below dir
Watches(cwd, dir) ==
  /\ Len(cwd) <= Len(dir)
  /\ SubSeq(dir, 1, Len(cwd)) = cwd

\* Map.prototype.set
MapSet(m, k, v) == [x \in (DOMAIN m) \cup {k} |-> IF x = k THEN v ELSE m[x]]

\* variant: the list of the label is replaced by the new record
MapPushReplace(m, k, v) == MapSet(m, k, <<v>>)

\* if (!m.has(k)) m.set(k, []); m.get(k).push(v)
MapPush(m, k, v) == MapSet(m, k, Append(IF k \in DOMAIN m THEN m[k] ELSE <<>>, v))

\* runAllBenchmarksParallel not called.  sc: one entry per config once it is
\* called; eligible: the number of eligible files below each srcDir; all: the
\* state of the promise the running bench awaits, Promise.all(promises) in
\* the parallel bench; past: label and error of the finished runs whose entry
\* in sc a later run of the same config has taken, oldest first
NoPar == [sc |-> <<>>, eligible |-> <<>>, all |-> "off", past |-> <<>>]

\* a run of runWatchModeBenchmark started by the map callback: its position,
\* the error it caught, the state of its raced promise; foreignPending: a file
\* below the cwd of its watcher was written by another scenario and that
\* watcher has not finished a check cycle since; misattributed: one of its
\* waitForNextCheck was resolved by the cycle of such a write
NewScenario ==
  [pc |-> "awaitInitial", error |-> "none", promise |-> "pending",
   foreignPending |-> FALSE, misattributed |-> FALSE]

\* Promise.race([run, timeoutPromise]).catch(error => null) at the moment the
\* run settles after the given number of waits: a wait lasts no longer than
\* its timeout plus one period of its interval, so the run has settled before
\* the timer of the race fires unless that takes BenchmarkTimeout
RacePromise(outcome, waits) ==
  IF outcome = "rejected" THEN "null"
  ELSE IF waits * (DefaultTimeout + PollMs) < BenchmarkTimeout THEN "stats"
  ELSE "null"

\* addSpacesToFiles / removeSpacesFromFiles of scenario i write below its
\* srcDir: every other live watcher that sees the directory has a change of
\* another scenario to check
WriteFiles(sc, i) ==
  [k \in Scenarios |->
     IF k # i /\ sc[k].pc # "returned"
          /\ Watches(benchmarkConfigs[k].cwd, benchmarkConfigs[i].srcDir)
     THEN [sc[k] EXCEPT !.foreignPending = TRUE]
     ELSE sc[k]]

\* the clock-free locals of a run whose two rounds completed
ParRun == [NoRun EXCEPT !.changeTimings = <<0, 0>>]

\* variant: the catch block rethrows instead of storing failedStats
ParCatchRethrow(i, msg, waits) ==
  /\ par' = [par EXCEPT !.sc[i].pc = "returned",
                        !.sc[i].error = msg,
                        !.sc[i].foreignPending = FALSE,
                        !.sc[i].promise = RacePromise("rejected", waits)]
  /\ benchmarkErrors' = MapSet(benchmarkErrors, benchmarkConfigs[i].label, msg)
  /\ benchmarkResults' = benchmarkResults

\* the catch block of run i: kill, benchmarkErrors.set, push failedStats,
\* return failedStats
ParCatch(i, msg, waits) ==
  /\ par' = [par EXCEPT !.sc[i].pc = "returned",
                        !.sc[i].error = msg,
                        !.sc[i].foreignPending = FALSE,
                        !.sc[i].promise = RacePromise("fulfilled", waits)]
  /\ benchmarkErrors' = MapSet(benchmarkErrors, benchmarkConfigs[i].label, msg)
  /\ benchmarkResults' =
       MapPush(benchmarkResults, benchmarkConfigs[i].label, FailedStats(NoRun, now))

\* runAllBenchmarksParallel is called: the map callback calls
\* runWatchModeBenchmark for each config, which spawns its watcher and runs
\* to its first await; then Promise.all(promises) is awaited
ParCall ==
  /\ pc = "parallel" /\ par.all = "off"
  /\ \E eligible \in [SrcDirs -> 0..MaxFiles] :
       par' = [sc |-> [i \in Scenarios |-> NewScenario],
               eligible |-> eligible,
               all |-> "pending",
               past |-> <<>>]
  /\ UNCHANGED <<watcher, wait, now, cuts, fs, report, disk, benchVars>>

\* waitForInitialCheck of run i resolved: select the files; with none, throw
\* into the catch block; otherwise addSpacesToFiles and waitForNextCheck
ParInitialResolved(i) ==
  /\ par.all = "pending" /\ par.sc[i].pc = "awaitInitial"
  /\ LET files == getRandomSvelteFiles(par.eligible[benchmarkConfigs[i].srcDir], 5)
     IN  IF files = 0
         THEN ParCatch(i, "No svelte files found", 1)
         ELSE /\ par' = [par EXCEPT !.sc = [WriteFiles(par.sc, i) EXCEPT
                                              ![i].pc = "awaitAdd"]]
              /\ UNCHANGED <<benchmarkResults, benchmarkErrors>>
  /\ UNCHANGED <<watcher, wait, now, cuts, fs, report, disk, pc, kills, run>>

\* waitForInitialCheck of run i rejected
ParInitialTimedOut(i) ==
  /\ par.all = "pending" /\ par.sc[i].pc = "awaitInitial"
  /\ ParCatch(i, "Timeout waiting for initial check to complete", 1)
  /\ UNCHANGED <<watcher, wait, now, cuts, fs, report, disk, pc, kills, run>>

\* the cycles whose end marker can resolve a waitForNextCheck of run i: the
\* one its own write triggered, and the one a pending foreign write triggered
ResolvingCycles(i) ==
  IF par.sc[i].foreignPending THEN {"own", "foreign"} ELSE {"own"}

\* the add round of run i resolved: removeSpacesFromFiles and waitForNextCheck
ParAddResolved(i, by) ==
  /\ par.all = "pending" /\ par.sc[i].pc = "awaitAdd"
  /\ by \in ResolvingCycles(i)
  /\ par' = [par EXCEPT !.sc = [WriteFiles(par.sc, i) EXCEPT
                                  ![i].pc = "awaitRemove",
                                  ![i].foreignPending = FALSE,
                                  ![i].misattributed = @ \/ (by = "foreign")]]
  /\ UNCHANGED <<watcher, wait, now, cuts, fs, report, disk, benchVars>>

\* variant: a run that completes deletes the error stored for its label
ParRemoveResolvedClears(i, by) ==
  /\ par.all = "pending" /\ par.sc[i].pc = "awaitRemove"
  /\ by \in ResolvingCycles(i)
  /\ par' = [par EXCEPT !.sc[i].pc = "returned",
                        !.sc[i].foreignPending = FALSE,
                        !.sc[i].misattributed = @ \/ (by = "foreign"),
                        !.sc[i].promise = RacePromise("fulfilled", 3)]
  /\ benchmarkResults' =
       MapPush(benchmarkResults, benchmarkConfigs[i].label, Stats(ParRun, now))
  /\ benchmarkErrors' =
       [l \in DOMAIN benchmarkErrors \ {benchmarkConfigs[i].label} |-> benchmarkErrors[l]]
  /\ UNCHANGED <<watcher, wait, now, cuts, fs, report, disk, pc, kills, run>>

\* the remove round of run i resolved: kill, push stats, return stats
ParRemoveResolved(i, by) ==
  /\ par.all = "pending" /\ par.sc[i].pc = "awaitRemove"
  /\ by \in ResolvingCycles(i)
  /\ par' = [par EXCEPT !.sc[i].pc = "returned",
                        !.sc[i].foreignPending = FALSE,
                        !.sc[i].misattributed = @ \/ (by = "foreign"),
                        !.sc[i].promise = RacePromise("fulfilled", 3)]
  /\ benchmarkResults' =
       MapPush(benchmarkResults, benchmarkConfigs[i].label, Stats(ParRun, now))
  /\ UNCHANGED <<watcher, wait, now, cuts, fs, report, disk, pc, kills, run, benchmarkErrors>>

\* a waitForNextCheck of run i rejected, in the add or in the remove round
ParRoundTimedOut(i) ==
  /\ par.all = "pending" /\ par.sc[i].pc \in {"awaitAdd", "awaitRemove"}
  /\ ParCatch(i, "Timeout waiting for next check to complete",
              IF par.sc[i].pc = "awaitAdd" THEN 2 ELSE 3)
  /\ UNCHANGED <<watcher, wait, now, cuts, fs, report, disk, pc, kills, run>>

\* await Promise.all(promises): every promise has settled; Promise.all rejects
\* if one of them rejected
ParAllSettled ==
  /\ par.all = "pending"
  /\ \A i \in Scenarios : par.sc[i].promise # "pending"
  /\ par' = [par EXCEPT !.all = IF \E i \in Scenarios : par.sc[i].promise = "rejected"
                                THEN "rejected" ELSE "resolved"]
  /\ UNCHANGED <<watcher, wait, now, cuts, fs, report, disk, benchVars>>

\* the configs an individual bench can run next: the benches run in the
\* order they are declared, which is the order of benchmarkConfigs, each one
\* or more times, so the next run is of the config run last or of the one
\* after it, and the first is of the first config
NextBenches ==
  IF par.past = <<>> THEN {1}
  ELSE LET last == CHOOSE k \in Scenarios :
                     benchmarkConfigs[k].label = par.past[Len(par.past)].label
       IN  {last, last + 1} \cap Scenarios

\* an individual bench, after the parallel bench has returned: await
\* runWatchModeBenchmark(label, command, cwd, srcDir) with config i, which
\* spawns its watcher and runs to its first await
BenchRun(i) ==
  /\ pc = "parallel" /\ par.all \in {"resolved", "rejected"}
  /\ Len(par.past) < MaxRepeat
  /\ i \in NextBenches
  /\ par' = [par EXCEPT !.sc[i] = NewScenario,
                        !.all = "pending",
                        !.past = Append(@, [label |-> benchmarkConfigs[i].label,
                                            error |-> par.sc[i].error])]
  /\ UNCHANGED <<watcher, wait, now, cuts, fs, report, disk, benchVars>>

(* ================================================================ afterAll *)

\* the labels the report compares
Labels == {benchmarkConfigs[i].label : i \in Scenarios}

\* the records runWatchModeBenchmark can have pushed: the record of a run that
\* timed out, and the record of a run that completed both rounds
RecordChoices ==
  { FailedStats(NoRun, 3000),
    Stats([NoRun EXCEPT !.initialRunTime = 1000, !.changeTimings = <<100, 300>>], 1400) }

\* a / b on numbers: the quotient num / den when b is not 0, and NaN,
\* Infinity or -Infinity when it is
JsDiv(a, b) ==
  IF b = 0
  THEN [kind |-> IF a = 0 THEN "NaN" ELSE IF a > 0 THEN "Infinity" ELSE "-Infinity",
        num |-> 0, den |-> 1]
  ELSE [kind |-> "finite", num |-> a, den |-> b]

\* runs.reduce((a, b) => a + b.<field>, 0) for each field the report sums
SumTotal(runs) == Sum([i \in 1..Len(runs) |-> runs[i].totalDuration])
SumInitial(runs) == Sum([i \in 1..Len(runs) |-> runs[i].initialRunTime])
SumChange(runs) == Sum([i \in 1..Len(runs) |-> runs[i].averageChangeTime])

\* variant: the failure records are left out of the sums
SummaryOfSuccessful(runs) ==
  LET ok == SelectSeq(runs, LAMBDA r : r.changeTimings # <<>>)
  IN  [avgTotal   |-> JsDiv(SumTotal(ok), Len(runs)),
       avgInitial |-> JsDiv(SumInitial(ok), Len(runs)),
       avgChange  |-> JsDiv(SumChange(ok), Len(runs)),
       medChange  |-> median([i \in 1..Len(ok) |-> ok[i].medianChangeTime])]

\* the four numbers the report shows for one label: avgTotal, avgInitial,
\* avgChange and medChange, as they are before toFixed formats them
Summary(runs) ==
  [avgTotal   |-> JsDiv(SumTotal(runs), Len(runs)),
   avgInitial |-> JsDiv(SumInitial(runs), Len(runs)),
   avgChange  |-> JsDiv(SumChange(runs), Len(runs)),
   medChange  |-> median([i \in 1..Len(runs) |-> runs[i].medianChangeTime])]

\* ((baseAvg - otherAvg) / baseAvg) * 100 with baseAvg and otherAvg the means
\* of averageChangeTime: ((a/b - c/d) / (a/b)) * 100 = (a*d - c*b)*b*100 / (b*d*a)
Improvement(base, other) ==
  LET a == SumChange(base)
      b == Len(base)
      c == SumChange(other)
      d == Len(other)
  IN  JsDiv((a * d - c * b) * b * 100, b * d * a)

\* ((otherAvg - baseAvg) / baseAvg) * 100
Impact(base, other) ==
  LET a == SumChange(base)
      b == Len(base)
      c == SumChange(other)
      d == Len(other)
  IN  JsDiv((c * b - a * d) * b * 100, b * d * a)

\* the result of a comparison block whose condition is false
Skipped == [kind |-> "skipped", num |-> 0, den |-> 1]

\* benchmarkResults.get(base) && benchmarkResults.get(other)
BothPresent(base, other) ==
  base \in DOMAIN benchmarkResults /\ other \in DOMAIN benchmarkResults

\* afterAll: the per-label summary and the three comparisons
AfterAll ==
  /\ pc = "afterAll" /\ report.called = "none"
  /\ report' =
       [called   |-> "afterAll",
        summary  |-> [l \in DOMAIN benchmarkResults |-> Summary(benchmarkResults[l])],
        noWT     |-> IF BothPresent("npm-no-worktrees", "custom-no-worktrees")
                     THEN Improvement(benchmarkResults["npm-no-worktrees"],
                                      benchmarkResults["custom-no-worktrees"])
                     ELSE Skipped,
        withWT   |-> IF BothPresent("npm-with-worktrees", "custom-with-worktrees")
                     THEN Improvement(benchmarkResults["npm-with-worktrees"],
                                      benchmarkResults["custom-with-worktrees"])
                     ELSE Skipped,
        impact   |-> IF BothPresent("npm-no-worktrees", "npm-with-worktrees")
                     THEN Impact(benchmarkResults["npm-no-worktrees"],
                                 benchmarkResults["npm-with-worktrees"])
                     ELSE Skipped]
  /\ UNCHANGED <<watcher, wait, now, cuts, fs, disk, par, benchVars>>

(* ============================================ benchmark-worktree.bench.ts *)

\* const batchSize = 10; getRandomSvelteFiles(50); the default timeout of
\* waitForCheckComplete and the one handed to it for a batch
BatchSize == 10
WtRequestedCount == 50
CheckTimeout == 30000
BatchTimeout == 15000

\* the clock advances one batch timeout at a time
WtTickMs == BatchTimeout

\* the labels of the two benches
WtLabels == {"npm-latest", "custom-excludes"}

\* what the watcher prints, in tokens: a completion pattern or other text
WtTokens == {"Watching for file changes", "svelte-check found", "found 0 errors", "text"}

\* the variables the worktree benchmark does not have
wtRest == <<cuts, benchmarkErrors, disk, par, fs, report>>

\* runSvelteCheckWatch(command) of the worktree benchmark
WtRunSvelteCheckWatch == [stdout |-> <<>>]

\* watcher.stdout.includes(...) of one of the three completion patterns
checkOutput(stdout) ==
  \E k \in 1..Len(stdout) :
    stdout[k] \in {"Watching for file changes", "svelte-check found", "found 0 errors"}

\* waitForCheckComplete(watcher, timeout) called at time t.  The executor
\* calls checkOutput() before 'const interval' is initialised: with a pattern
\* already in stdout, clearInterval(interval) throws a ReferenceError, which
\* rejects the promise, unless the build turned const into var, and then the
\* promise resolves and the interval set afterwards is never cleared.
waitForCheckComplete(w, timeout, t, build) ==
  LET new == [fn |-> "waitForCheckComplete", startTime |-> t, timeout |-> timeout,
              originalStdout |-> w.stdout, state |-> "pending", value |-> 0,
              timeoutId |-> TRUE, interval |-> TRUE]
  IN  IF ~checkOutput(w.stdout) THEN new
      ELSE IF build = "const"
           THEN [new EXCEPT !.state = "rejected", !.value = "ReferenceError",
                            !.timeoutId = FALSE, !.interval = FALSE]
           ELSE [new EXCEPT !.state = "resolved", !.timeoutId = FALSE]

\* no wait of the worktree benchmark
WtNoWait ==
  [fn |-> "none", startTime |-> 0, timeout |-> 0, originalStdout |-> <<>>,
   state |-> "none", value |-> 0, timeoutId |-> FALSE, interval |-> FALSE]

\* shuffled.slice(0, Math.min(count, shuffled.length)), as a number of files
WtGetRandomSvelteFiles(n, count) == IF count < n THEN count ELSE n

\* the number of iterations of 'for (let i = 0; i < files.length; i += batchSize)'
Batches(files) == (files + BatchSize - 1) \div BatchSize

\* the locals of runWatchModeBenchmark of the worktree benchmark.  i: the loop
\* variable; batchStart: Date.now() at the start of the batch
WtNoRun ==
  [label |-> "none", startTime |-> 0, initialRunTime |-> 0, files |-> 0, i |-> 0,
   batchStart |-> 0, batchTimings |-> <<>>, error |-> "none"]

\* the stats object; on no sample the division is 0 / 0, median adds two
\* undefined, and Math.min() and Math.max() are Infinity and -Infinity
WtStats(r, t) ==
  LET bt == r.batchTimings
  IN  [totalDuration    |-> t - r.startTime,
       initialRunTime   |-> r.initialRunTime,
       batchTimings     |-> bt,
       averageBatchTime |-> IF bt = <<>> THEN "NaN" ELSE Sum(bt) \div Len(bt),
       medianBatchTime  |-> IF bt = <<>> THEN "NaN" ELSE median(bt),
       minBatchTime     |-> IF bt = <<>> THEN "Infinity" ELSE SortAsc(bt)[1],
       maxBatchTime     |-> IF bt = <<>> THEN "-Infinity" ELSE SortAsc(bt)[Len(bt)]]

\* a bench calls runWatchModeBenchmark(command, label): spawn the watcher and
\* call waitForCheckComplete(watcher)
WtCallRun(label) ==
  /\ pc = "wtOff"
  /\ run' = [WtNoRun EXCEPT !.label = label, !.startTime = now]
  /\ watcher' = WtRunSvelteCheckWatch
  /\ \E build \in {"const", "var"} :
       wait' = waitForCheckComplete(WtRunSvelteCheckWatch, CheckTimeout, now, build)
  /\ pc' = "awaitInitial"
  /\ UNCHANGED <<now, kills, benchmarkResults, wtRest>>

\* child.stdout.on('data'): the watcher process is alive and prints
WtData(token) ==
  /\ pc \in {"awaitInitial", "awaitAdd", "awaitRemove"}
  /\ Len(watcher.stdout) < MaxWtStdout
  /\ watcher' = [watcher EXCEPT !.stdout = Append(@, token)]
  /\ UNCHANGED <<wait, now, pc, kills, run, benchmarkResults, wtRest>>

\* time passes while the wait is pending
WtTick ==
  /\ pc \in {"awaitInitial", "awaitAdd", "awaitRemove"}
  /\ wait.state = "pending"
  /\ now - wait.startTime < wait.timeout
  /\ now' = now + WtTickMs
  /\ UNCHANGED <<watcher, wait, pc, kills, run, benchmarkResults, wtRest>>

\* the setInterval callback finds new output with a completion pattern:
\* clearTimeout, clearInterval, resolve(Date.now() - startTime)
WtInterval ==
  /\ wait.state = "pending" /\ wait.interval
  /\ watcher.stdout # wait.originalStdout
  /\ checkOutput(watcher.stdout)
  /\ wait' = [wait EXCEPT !.state = "resolved", !.value = now - wait.startTime,
                          !.timeoutId = FALSE, !.interval = FALSE]
  /\ UNCHANGED <<watcher, now, pc, kills, run, benchmarkResults, wtRest>>

\* the setTimeout callback: reject; the interval is left running
WtTimeout ==
  /\ wait.state = "pending" /\ wait.timeoutId
  /\ now - wait.startTime >= wait.timeout
  /\ wait' = [wait EXCEPT !.state = "rejected",
                          !.value = "Timeout waiting for svelte-check to complete",
                          !.timeoutId = FALSE]
  /\ UNCHANGED <<watcher, now, pc, kills, run, benchmarkResults, wtRest>>

\* the body of a batch loop up to its await: batchStart, the writes to the
\* files of the batch, watcher.stdout = '', waitForCheckComplete(watcher, 15000)
WtStartBatch(r, i, position) ==
  /\ run' = [r EXCEPT !.i = i, !.batchStart = now]
  /\ watcher' = [watcher EXCEPT !.stdout = <<>>]
  /\ wait' = waitForCheckComplete([watcher EXCEPT !.stdout = <<>>], BatchTimeout, now, "const")
  /\ pc' = position
  /\ UNCHANGED <<kills, benchmarkResults>>

\* after the loops: watcher.process.kill(), stats, push, return stats
WtFinish(r) ==
  /\ kills' = kills + 1
  /\ run' = r
  /\ benchmarkResults' = MapPush(benchmarkResults, r.label, WtStats(r, now))
  /\ wait' = WtNoWait
  /\ pc' = "returned"
  /\ UNCHANGED watcher

\* the initial wait resolved: select the files and enter the add loop, which
\* like the remove loop has no iteration when there is no file
WtAfterInitial ==
  /\ pc = "awaitInitial" /\ wait.state = "resolved"
  /\ LET r == [run EXCEPT !.initialRunTime = wait.value,
                          !.files = WtGetRandomSvelteFiles(fs.count, WtRequestedCount)]
     IN  IF r.files > 0 THEN WtStartBatch(r, 0, "awaitAdd") ELSE WtFinish(r)
  /\ UNCHANGED <<now, wtRest>>

\* the wait of an add batch resolved: push the sample; next add batch, or the
\* first remove batch
WtAfterAddBatch ==
  /\ pc = "awaitAdd" /\ wait.state = "resolved"
  /\ LET r == [run EXCEPT !.batchTimings = Append(@, now - run.batchStart)]
     IN  IF run.i + BatchSize < run.files
         THEN WtStartBatch(r, run.i + BatchSize, "awaitAdd")
         ELSE WtStartBatch(r, 0, "awaitRemove")
  /\ UNCHANGED <<now, wtRest>>

\* the wait of a remove batch resolved: push the sample; next remove batch, or
\* kill the watcher and store the stats
WtAfterRemoveBatch ==
  /\ pc = "awaitRemove" /\ wait.state = "resolved"
  /\ LET r == [run EXCEPT !.batchTimings = Append(@, now - run.batchStart)]
     IN  IF run.i + BatchSize < run.files
         THEN WtStartBatch(r, run.i + BatchSize, "awaitRemove")
         ELSE WtFinish(r)
  /\ UNCHANGED <<now, wtRest>>

\* variant: the catch block stores a record of the failed run before it rethrows
WtCatchStores ==
  /\ pc \in {"awaitInitial", "awaitAdd", "awaitRemove"} /\ wait.state = "rejected"
  /\ kills' = kills + 1
  /\ run' = [run EXCEPT !.error = wait.value]
  /\ benchmarkResults' = MapPush(benchmarkResults, run.label, WtStats(run, now))
  /\ pc' = "thrown"
  /\ UNCHANGED <<watcher, wait, now, wtRest>>

\* a wait rejected: catch (error) { watcher.process.kill(); throw error; }
WtCatch ==
  /\ pc \in {"awaitInitial", "awaitAdd", "awaitRemove"} /\ wait.state = "rejected"
  /\ kills' = kills + 1
  /\ run' = [run EXCEPT !.error = wait.value]
  /\ pc' = "thrown"
  /\ UNCHANGED <<watcher, wait, now, benchmarkResults, wtRest>>

(* ===================================================== benchmark.bench.ts *)

\* what the child prints, in tokens
OsTokens == {"svelte-check found", "text"}

\* the exit codes 'close' is emitted with, as JavaScript writes them: 0, a
\* non-zero code, and null when a signal ended the child
OsCodes == {"0", "1", "null"}

\* the code 'close' is emitted with after a failed spawn: the negated errno
SpawnErrorCode == "-2"

\* the variables the one-shot benchmark does not have
osRest == <<cuts, kills, benchmarkResults, benchmarkErrors, disk, par, fs, report>>

\* stdout.includes('svelte-check found')
includesFound(stdout) == \E k \in 1..Len(stdout) : stdout[k] = "svelte-check found"

\* variant: a non-zero code rejects whatever stdout holds
closeRejectsOnCode(code, stdout) == code # "0"

\* code !== 0 && !stdout.includes('svelte-check found')
closeRejects(code, stdout) == code # "0" /\ ~includesFound(stdout)

\* no child.  state: "spawned", "failed" (the spawn failed and 'error' is due),
\* "errored" ('error' was emitted and 'close' is due) or "closed"
NoChild == [state |-> "none", stdout |-> <<>>, code |-> "none", errorEmitted |-> FALSE]

\* what a promise of runSvelteCheck settles with: the result { duration,
\* stdout }, the error of the spawn, or the error made from the exit code
NoValue == [kind |-> "none", duration |-> 0, stdout |-> <<>>, code |-> "none"]

\* no promise.  calls: the calls of resolve and reject so far
NoPromise == [state |-> "none", value |-> NoValue, calls |-> 0, startTime |-> 0]

\* resolve(value) / reject(value) of a promise: the first call settles it,
\* a later call has no effect
Settle(p, state, value) ==
  IF p.state = "pending"
  THEN [p EXCEPT !.state = state, !.value = value, !.calls = @ + 1]
  ELSE [p EXCEPT !.calls = @ + 1]

\* runSvelteCheck(command): startTime, the promise, and the spawn, which
\* succeeds or fails
OsCall(spawned) ==
  /\ pc = "oneShot"
  /\ watcher.state \in {"none", "closed"}
  /\ run < MaxOsCalls
  /\ run' = run + 1
  /\ watcher' = [NoChild EXCEPT !.state = IF spawned THEN "spawned" ELSE "failed"]
  /\ wait' = [NoPromise EXCEPT !.state = "pending", !.startTime = now]
  /\ UNCHANGED <<now, pc, osRest>>

\* child.stdout.on('data')
OsData(token) ==
  /\ pc = "oneShot" /\ watcher.state = "spawned"
  /\ Len(watcher.stdout) < MaxOsStdout
  /\ watcher' = [watcher EXCEPT !.stdout = Append(@, token)]
  /\ UNCHANGED <<wait, now, pc, run, osRest>>

\* a millisecond passes
OsTick ==
  /\ pc = "oneShot" /\ watcher.state \in {"spawned", "failed", "errored"}
  /\ now < MaxOsTime
  /\ now' = now + 1
  /\ UNCHANGED <<watcher, wait, pc, run, osRest>>

\* child.on('error'): reject(error)
OsError ==
  /\ pc = "oneShot" /\ watcher.state = "failed"
  /\ watcher' = [watcher EXCEPT !.state = "errored", !.errorEmitted = TRUE]
  /\ wait' = Settle(wait, "rejected", [NoValue EXCEPT !.kind = "spawn error"])
  /\ UNCHANGED <<now, pc, run, osRest>>

\* child.on('close'): duration, then reject or resolve.  After a failed
\* spawn 'close' follows 'error' with the negated errno as code.
OsClose(code) ==
  /\ pc = "oneShot" /\ watcher.state \in {"spawned", "errored"}
  /\ code = SpawnErrorCode <=> watcher.state = "errored"
  /\ watcher' = [watcher EXCEPT !.state = "closed", !.code = code]
  /\ wait' = IF closeRejects(code, watcher.stdout)
             THEN Settle(wait, "rejected",
                         [NoValue EXCEPT !.kind = "Command failed with code", !.code = code])
             ELSE Settle(wait, "resolved",
                         [NoValue EXCEPT !.kind = "result",
                                         !.duration = now - wait.startTime,
                                         !.stdout = watcher.stdout])
  /\ UNCHANGED <<now, pc, run, osRest>>

\* a spawned watch process and nobody waiting yet
Init ==
  /\ watcher = runSvelteCheckWatch
  /\ wait = NoWait
  /\ now = 0
  /\ cuts = {}
  /\ pc = "off"
  /\ kills = 0
  /\ run = NoRun
  /\ benchmarkResults = <<>>
  /\ benchmarkErrors = <<>>
  /\ disk = NoDisk
  /\ par = NoPar
  /\ fs = NoFs
  /\ report = NoReport

Next ==
  \/ \E chunk \in Chunks(Alphabet, MaxStdout - Len(watcher.stdout)) : StdoutData(chunk)
  \/ Tick
  \/ CallWaitForInitialCheck
  \/ CallWaitForPendingCheck
  \/ CallWaitForNextCheck
  \/ IntervalInitial
  \/ IntervalPending
  \/ IntervalNext

Spec == Init /\ [][Next]_vars

\* timers fire: time passes while a wait polls, and its interval callback runs
FairSpec ==
  /\ Spec
  /\ WF_vars(Tick)
  /\ WF_vars(IntervalInitial)
  /\ WF_vars(IntervalPending)
  /\ WF_vars(IntervalNext)

\* the detector alone, fed chunk by chunk, with the chunk boundaries remembered
NextSplit == \E chunk \in Chunks(Alphabet, MaxStdout - Len(watcher.stdout)) : StdoutDataCut(chunk)

SpecSplit == Init /\ [][NextSplit]_vars

\* runWatchModeBenchmark for one label, from before its call
InitBench ==
  /\ watcher = runSvelteCheckWatch
  /\ wait = NoWait
  /\ now = 0
  /\ cuts = {}
  /\ pc = "start"
  /\ kills = 0
  /\ run = NoRun
  /\ benchmarkResults = <<>>
  /\ benchmarkErrors = <<>>
  /\ disk = NoDisk
  /\ par = NoPar
  /\ fs = NoFs
  /\ report = NoReport

NextBench ==
  \/ BenchCall
  \/ \E chunk \in Chunks(BenchAlphabet, MaxStdout - Len(watcher.stdout)) : StdoutData(chunk)
  \/ Tick
  \/ IntervalInitial
  \/ IntervalNext
  \/ \E n \in 0..MaxFiles : AfterInitial(n)
  \/ InitialTimedOut
  \/ AfterAdd
  \/ AddTimedOut
  \/ AfterRemove
  \/ RemoveTimedOut
  \/ KillWatcher
  \/ StoreStats
  \/ CatchKill
  \/ StoreFailedStats
  \/ Return

SpecBench == InitBench /\ [][NextBench]_vars

\* addSpacesToFiles and removeSpacesFromFiles on a list of selected files
\* with any contents
InitFiles ==
  /\ watcher = runSvelteCheckWatch
  /\ wait = NoWait
  /\ now = 0
  /\ cuts = {}
  /\ pc = "files"
  /\ kills = 0
  /\ run = NoRun
  /\ benchmarkResults = <<>>
  /\ benchmarkErrors = <<>>
  /\ \E n \in 1..MaxDisk : \E files \in [1..n -> Contents(MaxContent)] :
       disk = [original |-> files, content |-> files, ops |-> <<>>]
  /\ par = NoPar
  /\ fs = NoFs
  /\ report = NoReport

NextFiles ==
  \/ AddSpacesToFiles
  \/ RemoveSpacesFromFiles

SpecFiles == InitFiles /\ [][NextFiles]_vars

\* runAllBenchmarksParallel, from before its call
InitParallel ==
  /\ watcher = runSvelteCheckWatch
  /\ wait = NoWait
  /\ now = 0
  /\ cuts = {}
  /\ pc = "parallel"
  /\ kills = 0
  /\ run = NoRun
  /\ benchmarkResults = <<>>
  /\ benchmarkErrors = <<>>
  /\ disk = NoDisk
  /\ par = NoPar
  /\ fs = NoFs
  /\ report = NoReport

NextParallel ==
  \/ ParCall
  \/ \E i \in Scenarios : ParInitialResolved(i)
  \/ \E i \in Scenarios : ParInitialTimedOut(i)
  \/ \E i \in Scenarios : \E by \in {"own", "foreign"} : ParAddResolved(i, by)
  \/ \E i \in Scenarios : \E by \in {"own", "foreign"} : ParRemoveResolved(i, by)
  \/ \E i \in Scenarios : ParRoundTimedOut(i)
  \/ ParAllSettled

SpecParallel == InitParallel /\ [][NextParallel]_vars

\* the parallel bench followed by runs of the individual benches
NextRepeat ==
  \/ NextParallel
  \/ \E i \in Scenarios : BenchRun(i)

SpecRepeat == InitParallel /\ [][NextRepeat]_vars

\* the trees of at most MaxDepth levels
Trees ==
  UNION {[1..n -> [dir : DirNames, files : SUBSET FileNames]] : n \in 1..MaxDepth}

\* getRandomSvelteFiles on a directory that does not exist, or on a tree
InitTree ==
  /\ watcher = runSvelteCheckWatch
  /\ wait = NoWait
  /\ now = 0
  /\ cuts = {}
  /\ pc = "select"
  /\ kills = 0
  /\ run = NoRun
  /\ benchmarkResults = <<>>
  /\ benchmarkErrors = <<>>
  /\ disk = NoDisk
  /\ par = NoPar
  /\ \/ fs = NoFs
     \/ \E tree \in Trees :
          /\ tree[1].dir = RootName
          /\ fs = [NoFs EXCEPT !.tree = tree, !.exists = TRUE]
  /\ report = NoReport

NextTree == \E count \in 0..RequestedCount : CallGetRandomSvelteFiles(count)

SpecTree == InitTree /\ [][NextTree]_vars

\* median on any list of at most MaxValues durations
InitMedian ==
  /\ watcher = runSvelteCheckWatch
  /\ wait = NoWait
  /\ now = 0
  /\ cuts = {}
  /\ pc = "median"
  /\ kills = 0
  /\ run = NoRun
  /\ benchmarkResults = <<>>
  /\ benchmarkErrors = <<>>
  /\ disk = NoDisk
  /\ par = NoPar
  /\ fs = NoFs
  /\ \E n \in 0..MaxValues : \E values \in [1..n -> Durations] :
       report = [NoReport EXCEPT !.values = values, !.after = values]

NextMedian == CallMedian

SpecMedian == InitMedian /\ [][NextMedian]_vars

\* the accumulators as the runs can have left them: each label absent or with
\* up to MaxRecords records, and an error stored for each label with a
\* failure record
InitReport ==
  /\ watcher = runSvelteCheckWatch
  /\ wait = NoWait
  /\ now = 0
  /\ cuts = {}
  /\ pc = "afterAll"
  /\ kills = 0
  /\ run = NoRun
  /\ \E present \in SUBSET Labels :
       \E results \in [present -> UNION {[1..n -> RecordChoices] : n \in 1..MaxRecords}] :
         /\ benchmarkResults = results
         /\ benchmarkErrors =
              [l \in {x \in present : \E i \in 1..Len(results[x]) :
                                        results[x][i].changeTimings = <<>>}
                 |-> "Timeout waiting for initial check to complete"]
  /\ disk = NoDisk
  /\ par = NoPar
  /\ fs = NoFs
  /\ report = NoReport

NextReport == AfterAll

SpecReport == InitReport /\ [][NextReport]_vars

\* the worktree benchmark before a bench calls runWatchModeBenchmark, with
\* some number of eligible files below the src directory of the main repo
InitWorktree ==
  /\ watcher = WtRunSvelteCheckWatch
  /\ wait = WtNoWait
  /\ now = 0
  /\ cuts = {}
  /\ pc = "wtOff"
  /\ kills = 0
  /\ run = WtNoRun
  /\ benchmarkResults = <<>>
  /\ benchmarkErrors = <<>>
  /\ disk = NoDisk
  /\ par = NoPar
  /\ \E n \in 0..MaxWtFiles : fs = [NoFs EXCEPT !.count = n]
  /\ report = NoReport

NextWorktree ==
  \/ \E label \in WtLabels : WtCallRun(label)
  \/ \E token \in WtTokens : WtData(token)
  \/ WtTick
  \/ WtInterval
  \/ WtTimeout
  \/ WtAfterInitial
  \/ WtAfterAddBatch
  \/ WtAfterRemoveBatch
  \/ WtCatch

SpecWorktree == InitWorktree /\ [][NextWorktree]_vars

\* the one-shot benchmark before the first call of runSvelteCheck; run is
\* the number of calls made
InitOneShot ==
  /\ watcher = NoChild
  /\ wait = NoPromise
  /\ now = 0
  /\ cuts = {}
  /\ pc = "oneShot"
  /\ kills = 0
  /\ run = 0
  /\ benchmarkResults = <<>>
  /\ benchmarkErrors = <<>>
  /\ disk = NoDisk
  /\ par = NoPar
  /\ fs = NoFs
  /\ report = NoReport

NextOneShot ==
  \/ \E spawned \in BOOLEAN : OsCall(spawned)
  \/ \E token \in OsTokens : OsData(token)
  \/ OsTick
  \/ OsError
  \/ \E code \in OsCodes \cup {SpawnErrorCode} : OsClose(code)

SpecOneShot == InitOneShot /\ [][NextOneShot]_vars

(* ================================================================ claims *)

\* the stdout that had been received when the wait in progress was called
StdoutAtCall == SubSeq(watcher.stdout, 1, wait.callLen)

NextResolved == wait.fn = "waitForNextCheck" /\ wait.state = "resolved"

\* C1: waitForNextCheck resolves only once an end marker lies in stdout at a
\* greater offset than every end marker that was in stdout when it was called
\* (no completion observed before the call is counted again).
C1_NoDoubleCount ==
  NextResolved =>
    /\ LastEndOf(StdoutAtCall) < LastEndOf(watcher.stdout)
    /\ wait.callLen < Len(watcher.stdout)

\* an end marker was fed, waitForNextCheck was called, and it resolved
C1_Witness == NextResolved /\ LastEndOf(StdoutAtCall) # -1

\* C2: in every state isProcessing(watcher) is true iff the last START_MARKER
\* in stdout lies at a greater offset than the last occurrence of every end
\* marker, absent markers counting as -1.
C2_BusyIffStartAfterEnd ==
  /\ isProcessing(watcher)
        <=> (LastIndexOf(watcher.stdout, START_MARKER) > LastEndOf(watcher.stdout))
  /\ (LastIndexOf(watcher.stdout, START_MARKER) = -1) => ~isProcessing(watcher)

\* a start marker after an end marker: busy
C2_Witness == isProcessing(watcher) /\ watcher.lastEndMarker # -1

\* the watcher after text arrived in one chunk, and in two chunks cut at k
OneChunk(text) == StdoutDataHandler(runSvelteCheckWatch, text)
TwoChunks(text, k) ==
  StdoutDataHandler(StdoutDataHandler(runSvelteCheckWatch, SubSeq(text, 1, k)),
                    SubSeq(text, k + 1, Len(text)))

\* C3: however the text received so far was cut into chunks, the offsets and
\* isProcessing are those of the same text received in one chunk and of the
\* same text cut in two at any place.
C3_ChunkIndependence ==
  LET text == watcher.stdout
  IN  /\ watcher = OneChunk(text)
      /\ \A k \in 1..(Len(text) - 1) :
            /\ watcher = TwoChunks(text, k)
            /\ isProcessing(watcher) = isProcessing(TwoChunks(text, k))

\* a chunk ended between the two tokens of the last start marker
C3_Witness ==
  /\ watcher.lastStartMarker # -1
  /\ watcher.lastStartMarker + 1 \in cuts

\* C4: no 'data' event lowers lastStartMarker or lastEndMarker, and both stay
\* at or above -1.
C4_OffsetsMonotone ==
  [][/\ watcher'.lastStartMarker >= watcher.lastStartMarker
     /\ watcher'.lastEndMarker >= watcher.lastEndMarker
     /\ watcher'.lastStartMarker >= -1
     /\ watcher'.lastEndMarker >= -1]_vars

\* a later entry of END_MARKERS was found at a smaller offset than lastEndMarker
C4_Witness ==
  /\ LastIndexOf(watcher.stdout, END_MARKERS[4]) # -1
  /\ LastIndexOf(watcher.stdout, END_MARKERS[4]) < watcher.lastEndMarker

\* C5: when isProcessing was true at the call, waitForNextCheck resolves only
\* for a cycle started after the call: a start marker was fed since.
C5_InFlightTailIgnored ==
  (NextResolved /\ wait.callStart > wait.initialEndMarker)
    => watcher.lastStartMarker > wait.callStart

\* C6: when an end marker of the current cycle had been observed at the call,
\* a further end marker of that cycle (no start marker in between) does not
\* make waitForNextCheck resolve.
C6_NoSpuriousBoundary ==
  (NextResolved /\ wait.initialEndMarker > wait.callStart)
    => LastIndexOf(watcher.stdout, START_MARKER) > wait.initialEndMarker

\* C7: every wait that was called eventually resolves or rejects.
C7_WaitsTerminate == (wait.fn # "none") ~> (wait.state # "pending")

\* a wait rejected although the process wrote a start marker and no end marker
C7_Witness ==
  /\ wait.state = "rejected"
  /\ watcher.lastStartMarker # -1
  /\ watcher.lastEndMarker = -1

\* C8: waitForInitialCheck resolves only when lastEndMarker # -1, rejects only
\* at a poll with lastEndMarker = -1 and more than the timeout elapsed, calls
\* resolve/reject once and has cleared its interval when it has settled.
C8_InitialCheckSettles ==
  [][(wait'.fn = "waitForInitialCheck") =>
       /\ (wait.state = "pending" /\ wait'.state = "resolved")
             => watcher.lastEndMarker # -1
       /\ (wait.state = "pending" /\ wait'.state = "rejected")
             => (watcher.lastEndMarker = -1 /\ now - wait.startTime > DefaultTimeout)
       /\ wait'.settles <= 1
       /\ (wait'.state # "pending") <=> (wait'.settles = 1)
       /\ (wait'.state # "pending") => ~wait'.checkInterval]_vars

\* waitForInitialCheck timed out
C8_Witness == wait.fn = "waitForInitialCheck" /\ wait.state = "rejected"

\* C9: on every exit path of runWatchModeBenchmark on which the watch process
\* was spawned, kill() has been called exactly once when the run returns, and
\* never more than once.
C9_KilledExactlyOnce ==
  /\ kills <= 1
  /\ (pc \in {"return", "returned"} /\ run.watcher = "spawned") => kills = 1

\* the remove round timed out after the add round succeeded, and the run returned
C9_Witness ==
  /\ pc = "returned"
  /\ run.error = "Timeout waiting for next check to complete"
  /\ Len(run.changeTimings) = 1
  /\ kills = 1

\* C10: the watch process has been killed when the run's record is appended to
\* benchmarkResults and when the run's promise resolves, and the record has
\* been appended when the promise resolves.
C10_KillBeforeReport ==
  [][/\ (Len(benchmarkResults') > Len(benchmarkResults)) => kills >= 1
     /\ (pc' = "returned" /\ pc # "returned")
          => (kills >= 1 /\ Len(benchmarkResults) >= 1)]_vars

\* the success path returned: two samples, the stats stored
C10_Witness ==
  /\ pc = "returned"
  /\ run.error = "none"
  /\ Len(benchmarkResults) = 1
  /\ Len(benchmarkResults[1].changeTimings) = 2

\* the run is over: its record is stored and its promise resolves or has resolved
RunFinished == pc \in {"return", "returned"}

\* the record the finished run appended
RunRecord == benchmarkResults[Len(benchmarkResults)]

\* C11: a call of runWatchModeBenchmark appends nothing before it finishes and
\* has appended exactly one record when it finishes: the computed statistics
\* when no error was thrown, the failure record when one was, and in that case
\* the error is stored in benchmarkErrors; so the label of a finished run has
\* an entry in benchmarkResults.
C11_OneRecordPerRun ==
  /\ ~RunFinished => Len(benchmarkResults) = run.stored
  /\ RunFinished =>
       /\ Len(benchmarkResults) = run.stored + 1
       /\ run.error = "none" => RunRecord = Stats(run, now)
       /\ run.error # "none" =>
            (RunRecord = FailedStats(run, now) /\ benchmarkErrors = <<run.error>>)

\* a failed run has returned with its record and its error stored
C11_Witness ==
  /\ pc = "returned"
  /\ run.error = "Timeout waiting for initial check to complete"
  /\ Len(benchmarkResults) = 1
  /\ benchmarkErrors = <<run.error>>

RemoveRoundTimedOut ==
  /\ RunFinished
  /\ run.error = "Timeout waiting for next check to complete"
  /\ Len(run.changeTimings) = 1

\* C13 as stated: when the remove round times out after the add round
\* completed, the record appended for the run contains the add round's sample.
C13_EarlierSamplesRetained ==
  RemoveRoundTimedOut => RunRecord.changeTimings = run.changeTimings

\* C13: when the remove round times out after the add round completed, the
\* run is aborted and the record appended for it is the failure record, whose
\* sample list is empty: the add round's sample stays in the local
\* changeTimings and is not in the record.
C13_EarlierSamplesDropped ==
  RemoveRoundTimedOut =>
    /\ Len(benchmarkResults) = run.stored + 1
    /\ RunRecord.changeTimings = <<>>
    /\ RunRecord.averageChangeTime = 0
    /\ RunRecord = FailedStats(run, now)

\* the remove round timed out and the run returned after one measured round
C13_Witness == RemoveRoundTimedOut /\ pc = "returned" /\ run.removes = 1

\* C14 as stated: a run that fails with 'No svelte files found' has not
\* spawned the watcher and has not waited on it.
C14_EmptyFixtureBeforeProcess ==
  (run.error = "No svelte files found") =>
    (run.watcher = "null" /\ wait.fn = "none")

\* C14: 'No svelte files found' is thrown only after the watcher was spawned
\* and waitForInitialCheck resolved, and before any file is written and any
\* waitForNextCheck is called; the spawned watcher is killed before the run
\* returns.
C14_EmptyFixtureAfterInitialCheck ==
  (run.error = "No svelte files found") =>
    /\ run.watcher = "spawned"
    /\ wait.fn = "waitForInitialCheck" /\ wait.state = "resolved"
    /\ run.files = 0
    /\ run.adds = 0 /\ run.removes = 0 /\ run.spaces = 0
    /\ RunFinished => kills = 1

\* a run with no eligible file returned
C14_Witness ==
  /\ pc = "returned"
  /\ run.error = "No svelte files found"
  /\ run.watcher = "spawned"
  /\ kills = 1

\* C16: removeSpacesFromFiles and the remove round's wait are called only when
\* the add round's waitForNextCheck has resolved, and when the add round's
\* wait rejected the run enters the catch block and calls addSpacesToFiles and
\* removeSpacesFromFiles no more.
C16_RoundsSequential ==
  [][/\ (run'.removes > run.removes) =>
          /\ pc = "awaitAdd" /\ pc' = "awaitRemove"
          /\ wait.fn = "waitForNextCheck" /\ wait.state = "resolved"
          /\ run.adds = 1 /\ run.removes = 0
          /\ Len(run'.changeTimings) = 1
     /\ (pc' = "awaitRemove") => run'.removes = 1
     /\ (pc = "awaitAdd" /\ wait.state = "rejected") =>
          (pc' = "catch" /\ run'.removes = 0)
     /\ (pc \in {"catch", "catchStore", "return"}) =>
          (run'.adds = run.adds /\ run'.removes = run.removes
             /\ pc' \in {"catchStore", "return", "returned"})]_vars

\* the remove round is under way after the add round's wait resolved
C16_Witness ==
  /\ pc = "awaitRemove"
  /\ run.adds = 1 /\ run.removes = 1
  /\ Len(run.changeTimings) = 1

\* C17 as stated: addSpacesToFiles and removeSpacesFromFiles are called when
\* waitForPendingCheck has resolved, that is, when isProcessing(watcher) is
\* false.
C17_PerturbOnlyWhenIdle ==
  /\ run.adds > 0 => ~run.busyAtAdd
  /\ run.removes > 0 => ~run.busyAtRemove

\* C20 as stated: when the run has returned, every ' ' it appended to a file
\* has been stripped again.
C20_AppendStripPaired == (pc = "returned") => run.spaces = 0

\* C19 as stated: addSpacesToFiles followed by removeSpacesFromFiles leaves
\* every file with the content it had before.
C19_RoundTrip ==
  (disk.ops = <<"add", "remove">>) => disk.content = disk.original

\* the records stored under the label of scenario i
RecordsOf(i) ==
  IF benchmarkConfigs[i].label \in DOMAIN benchmarkResults
  THEN benchmarkResults[benchmarkConfigs[i].label] ELSE <<>>

\* scenario i has reported: one record under its label, the statistics if it
\* caught no error, the failure record and the stored error if it did
Reported(i) ==
  /\ Len(RecordsOf(i)) = 1
  /\ par.sc[i].error = "none" =>
       /\ RecordsOf(i)[1] = Stats(ParRun, now)
       /\ benchmarkConfigs[i].label \notin DOMAIN benchmarkErrors
  /\ par.sc[i].error # "none" =>
       /\ RecordsOf(i)[1] = FailedStats(NoRun, now)
       /\ benchmarkConfigs[i].label \in DOMAIN benchmarkErrors
       /\ benchmarkErrors[benchmarkConfigs[i].label] = par.sc[i].error

\* C15: whichever scenarios of runAllBenchmarksParallel fail, a scenario that
\* has not returned can still take its next step, a scenario that returned has
\* reported its own record and its promise is fulfilled with it, and
\* Promise.all never rejects: when it resolves, every scenario has reported.
C15_ScenarioIsolation ==
  /\ par.all # "rejected"
  /\ par.all = "pending" =>
       \A i \in Scenarios :
         /\ par.sc[i].pc = "returned" => (Reported(i) /\ par.sc[i].promise = "stats")
         /\ par.sc[i].pc # "returned" =>
              /\ RecordsOf(i) = <<>>
              /\ ENABLED (ParInitialTimedOut(i) \/ ParRoundTimedOut(i))
              /\ ENABLED (ParInitialResolved(i) \/ ParAddResolved(i, "own")
                            \/ ParRemoveResolved(i, "own"))
  /\ par.all = "resolved" => \A i \in Scenarios : Reported(i)

\* Promise.all resolved after two scenarios failed in different ways and a
\* third one completed both rounds
C15_Witness ==
  /\ par.all = "resolved"
  /\ par.sc[1].error = "Timeout waiting for initial check to complete"
  /\ par.sc[2].error = "Timeout waiting for next check to complete"
  /\ par.sc[3].error = "none"
  /\ Len(RecordsOf(3)[1].changeTimings) = 2

\* C18 as stated: no watcher of a running scenario sees the srcDir of another
\* running scenario, and no waitForNextCheck is resolved by the cycle that
\* another scenario's write triggered.
C18_PathsDisjoint ==
  par.all = "pending" =>
    \A i \in Scenarios :
      /\ ~par.sc[i].misattributed
      /\ \A j \in Scenarios \ {i} :
           (par.sc[i].pc # "returned" /\ par.sc[j].pc \in {"awaitAdd", "awaitRemove"})
             => ~Watches(benchmarkConfigs[i].cwd, benchmarkConfigs[j].srcDir)

\* the content does not end in white space
NoTrailingWhiteSpace(content) ==
  content = <<>> \/ content[Len(content)] \notin WhiteSpace

\* the step is a call of the given function on the selected files
FilesStep(op) ==
  /\ Len(disk'.ops) = Len(disk.ops) + 1
  /\ disk'.ops[Len(disk'.ops)] = op

\* C21: removeSpacesFromFiles leaves a file without trailing white space as
\* it is, and a second call in a row changes nothing, while each call of
\* addSpacesToFiles makes every file one ' ' longer, so that two calls append
\* two.
C21_StripIdempotent ==
  [][/\ FilesStep("remove") =>
          \A f \in 1..Len(disk.content) :
            /\ NoTrailingWhiteSpace(disk.content[f])
                 => disk'.content[f] = disk.content[f]
            /\ (disk.ops # <<>> /\ disk.ops[Len(disk.ops)] = "remove")
                 => disk'.content[f] = disk.content[f]
            /\ NoTrailingWhiteSpace(disk'.content[f])
     /\ FilesStep("add") =>
          \A f \in 1..Len(disk.content) :
            /\ disk'.content[f] = disk.content[f] \o <<" ">>
            /\ (disk.ops = <<"add">>)
                 => disk'.content[f] = disk.original[f] \o <<" ", " ">>]_vars

\* removeSpacesFromFiles was called twice on a file that ended in two white-
\* space characters
C21_Witness ==
  /\ disk.ops = <<"remove", "remove">>
  /\ disk.original[1] = <<" ", "\n">>
  /\ disk.content[1] = <<>>

\* C28: while waitForInitialCheck is awaited no file has been selected or
\* written and no sample recorded; addSpacesToFiles is called only by the
\* continuation of a resolved waitForInitialCheck; and a run whose
\* waitForInitialCheck timed out ends with no file written and no sample.
C28_NoPerturbationBeforeReady ==
  [][/\ (pc = "awaitInitial") =>
          /\ run.files = 0 /\ run.adds = 0 /\ run.removes = 0 /\ run.spaces = 0
          /\ run.changeTimings = <<>>
     /\ ((run.files = 0 /\ run'.files > 0) \/ run'.adds > run.adds) =>
          /\ pc = "awaitInitial"
          /\ wait.fn = "waitForInitialCheck" /\ wait.state = "resolved"
     /\ (run.error = "Timeout waiting for initial check to complete") =>
          /\ run.files = 0 /\ run.adds = 0 /\ run.removes = 0 /\ run.spaces = 0
          /\ run.changeTimings = <<>>
          /\ run'.error = run.error => (run'.adds = 0 /\ run'.files = 0)
          /\ pc \in {"catch", "catchStore", "return", "returned"}]_vars

\* waitForInitialCheck timed out and the run returned
C28_Witness ==
  /\ pc = "returned"
  /\ run.error = "Timeout waiting for initial check to complete"
  /\ run.adds = 0 /\ run.spaces = 0
  /\ RunRecord.changeTimings = <<>>

\* an end marker lies at 0-based offset p of the text
EndMarkerAt(text, p) ==
  \E e \in 1..Len(END_MARKERS) :
    /\ p + Len(END_MARKERS[e]) <= Len(text)
    /\ SubSeq(text, p + 1, p + Len(END_MARKERS[e])) = END_MARKERS[e]

\* the offsets of the end markers whose last piece arrived after the wait in
\* progress was called
EndsFedAfterCall ==
  {p \in 0..(Len(watcher.stdout) - 1) :
     \E e \in 1..Len(END_MARKERS) :
       /\ p + Len(END_MARKERS[e]) <= Len(watcher.stdout)
       /\ SubSeq(watcher.stdout, p + 1, p + Len(END_MARKERS[e])) = END_MARKERS[e]
       /\ p + Len(END_MARKERS[e]) > wait.callLen}

\* C30: the files of a round are written and the baseline of its
\* waitForNextCheck is captured in one step with no data event between; while
\* the round is awaited every end marker fed after that step lies above the
\* baseline and is recorded in lastEndMarker; and a poll that finds such a
\* marker and the session not busy does not reject the wait.
C30_NoLostCompletion ==
  [][/\ (run'.adds > run.adds \/ run'.removes > run.removes) =>
          /\ watcher' = watcher
          /\ wait'.fn = "waitForNextCheck" /\ wait'.state = "pending"
          /\ wait'.initialEndMarker = watcher.lastEndMarker
          /\ wait'.callLen = Len(watcher.stdout)
     /\ (pc \in {"awaitAdd", "awaitRemove"}) =>
          /\ \A p \in EndsFedAfterCall :
               p > wait.initialEndMarker /\ watcher.lastEndMarker >= p
          /\ (wait.state = "pending" /\ wait'.state = "rejected")
               => (EndsFedAfterCall = {} \/ isProcessing(watcher))
          /\ (wait.state = "pending" /\ wait'.state = "resolved")
               => (watcher.lastEndMarker > wait.initialEndMarker
                     /\ ~isProcessing(watcher))]_vars

\* a round's wait resolved at a poll after its timeout had passed, on an end
\* marker fed after the files were written
C30_Witness ==
  /\ pc = "awaitAdd"
  /\ wait.state = "resolved"
  /\ now - wait.startTime > DefaultTimeout
  /\ EndsFedAfterCall # {}

\* the eligible files of the tree: the '.svelte' files all of whose
\* directories below the root pass the name test
EligibleFiles ==
  IF ~fs.exists THEN {}
  ELSE {Append(DirPath(fs.tree, k), f) :
          <<k, f>> \in {<<k, f>> \in (1..Len(fs.tree)) \X FileNames :
                          /\ f \in fs.tree[k].files
                          /\ f[Len(f)] = ".svelte"
                          /\ \A j \in 2..k :
                               /\ fs.tree[j].dir[1] # "."
                               /\ fs.tree[j].dir \notin {<<"node_modules">>, <<"worktrees">>}}}

\* C22: a call of getRandomSvelteFiles with count >= 0 on a tree with n
\* eligible files returns min(count, n) paths, each an eligible file of the
\* tree and no two equal; with n < count it returns all n.
C22_MinCountDistinct ==
  fs.called =>
    LET n == Cardinality(EligibleFiles)
    IN  /\ Len(fs.result) = IF fs.count < n THEN fs.count ELSE n
        /\ \A i \in 1..Len(fs.result) : fs.result[i] \in EligibleFiles
        /\ \A i, j \in 1..Len(fs.result) : fs.result[i] = fs.result[j] => i = j
        /\ n < fs.count => {fs.result[i] : i \in 1..Len(fs.result)} = EligibleFiles

\* a call with count = 5 on a tree with 3 eligible files returned the 3
C22_Witness ==
  /\ fs.called /\ fs.count = 5
  /\ Cardinality(EligibleFiles) = 3
  /\ Len(fs.result) = 3

\* C29: every path returned ends in '.svelte', and none of the directories
\* between the root and the file is named 'node_modules' or 'worktrees' or
\* has a name starting with '.'.
C29_SkipsInfrastructure ==
  fs.called =>
    \A i \in 1..Len(fs.result) :
      LET path == fs.result[i]
      IN  /\ path[Len(path)][Len(path[Len(path)])] = ".svelte"
          /\ \A j \in 2..(Len(path) - 1) :
               /\ path[j] # <<"node_modules">>
               /\ path[j] # <<"worktrees">>
               /\ path[j][1] # "."

\* a call returned a file of the root although a '.svelte' file lies in a
\* 'worktrees' directory two levels below it
C29_Witness ==
  /\ fs.called /\ Len(fs.result) = 2
  /\ Len(fs.tree) = 3
  /\ fs.tree[3].dir = <<"worktrees">>
  /\ <<"a", ".svelte">> \in fs.tree[3].files

\* the k-th smallest element of a non-empty list, by counting
KthSmallest(values, k) ==
  CHOOSE x \in {values[i] : i \in 1..Len(values)} :
    /\ Cardinality({i \in 1..Len(values) : values[i] < x}) < k
    /\ Cardinality({i \in 1..Len(values) : values[i] <= x}) >= k

\* C23: median returns 0 for the empty list, the middle element of the sorted
\* list for an odd length and the mean of the two middle elements for an even
\* length ([100,200,300] -> 200, [100,200] -> 150), and leaves its argument
\* as it was.
C23_MedianCorrect ==
  (report.called = "median") =>
    LET v == report.values
        n == Len(v)
    IN  /\ n = 0 => report.result = 0
        /\ n % 2 = 1 => report.result = KthSmallest(v, (n + 1) \div 2)
        /\ (n % 2 = 0 /\ n > 0) =>
             2 * report.result = KthSmallest(v, n \div 2) + KthSmallest(v, (n \div 2) + 1)
        /\ v = <<100, 200, 300>> => report.result = 200
        /\ v = <<100, 200>> => report.result = 150
        /\ report.after = v

\* median of an unsorted list of three returned the middle one and left the
\* list unsorted
C23_Witness ==
  /\ report.called = "median"
  /\ report.values = <<300, 100, 200>>
  /\ report.result = 200
  /\ report.after = <<300, 100, 200>>

\* the number is the mean of the given sum over n records
IsMean(x, sum, n) == x.kind = "finite" /\ x.num * n = sum * x.den

\* C24: the report has a summary for every label of benchmarkResults, a
\* label whose records are all failure records included; the average total,
\* initial and change time of a label are the sums of totalDuration,
\* initialRunTime and averageChangeTime over all its records divided by their
\* number, and its median change time is the median of the records'
\* medianChangeTime.
C24_ReportAggregates ==
  (report.called = "afterAll") =>
    /\ DOMAIN report.summary = DOMAIN benchmarkResults
    /\ \A l \in DOMAIN benchmarkResults :
         LET runs == benchmarkResults[l]
             n    == Len(runs)
             meds == [i \in 1..n |-> runs[i].medianChangeTime]
             sm   == report.summary[l]
         IN  /\ IsMean(sm.avgTotal, Sum([i \in 1..n |-> runs[i].totalDuration]), n)
             /\ IsMean(sm.avgInitial, Sum([i \in 1..n |-> runs[i].initialRunTime]), n)
             /\ IsMean(sm.avgChange, Sum([i \in 1..n |-> runs[i].averageChangeTime]), n)
             /\ n % 2 = 1 => sm.medChange = KthSmallest(meds, (n + 1) \div 2)
             /\ n % 2 = 0 =>
                  2 * sm.medChange
                    = KthSmallest(meds, n \div 2) + KthSmallest(meds, (n \div 2) + 1)

\* the report was made with a label whose two runs both failed and a label
\* with one failed and one completed run
C24_Witness ==
  /\ report.called = "afterAll"
  /\ DOMAIN benchmarkResults = Labels
  /\ Len(benchmarkResults["npm-no-worktrees"]) = 2
  /\ \A i \in 1..2 : benchmarkResults["npm-no-worktrees"][i].changeTimings = <<>>
  /\ report.summary["npm-no-worktrees"].avgChange.num = 0
  /\ Len(benchmarkResults["custom-no-worktrees"]) = 2
  /\ benchmarkResults["custom-no-worktrees"][1].changeTimings = <<>>
  /\ benchmarkResults["custom-no-worktrees"][2].changeTimings = <<100, 300>>
  /\ report.summary["custom-no-worktrees"].medChange = 100

\* C25 as stated: every percentage the report computes is a finite number,
\* also when the records of the baseline label are all failure records.
C25_ZeroBaselineTolerated ==
  (report.called = "afterAll") =>
    /\ report.noWT.kind \in {"finite", "skipped"}
    /\ report.withWT.kind \in {"finite", "skipped"}
    /\ report.impact.kind \in {"finite", "skipped"}

\* the errors of the finished runs of a label, oldest first; "none" for a run
\* that completed
FinishedErrors(l) ==
  LET past == SelectSeq(par.past, LAMBDA e : e.label = l)
      cur  == {i \in DOMAIN par.sc :
                 benchmarkConfigs[i].label = l /\ par.sc[i].pc = "returned"}
  IN  [k \in 1..Len(past) |-> past[k].error]
        \o (IF cur = {} THEN <<>> ELSE <<par.sc[CHOOSE i \in cur : TRUE].error>>)

\* the records stored for a label
ResultsOf(l) == IF l \in DOMAIN benchmarkResults THEN benchmarkResults[l] ELSE <<>>

\* C26: benchmarkResults only grows by appending.  For every label the list
\* has one record per finished run of the label, in the order the runs
\* finished (a failure record for a run that failed, a stats record for one
\* that completed), and every step keeps every label and keeps its old list
\* as a prefix of the new one.
C26_AppendOnly ==
  /\ [](\A l \in Labels :
         /\ Len(ResultsOf(l)) = Len(FinishedErrors(l))
         /\ \A k \in 1..Len(ResultsOf(l)) :
              (ResultsOf(l)[k].changeTimings = <<>>) <=> (FinishedErrors(l)[k] # "none"))
  /\ [][\A l \in DOMAIN benchmarkResults :
          /\ l \in DOMAIN benchmarkResults'
          /\ Len(benchmarkResults'[l]) >= Len(benchmarkResults[l])
          /\ SubSeq(benchmarkResults'[l], 1, Len(benchmarkResults[l])) = benchmarkResults[l]]_vars

\* a label has the failure record of its run in the parallel bench followed
\* by the stats record of its run in an individual bench, while the other
\* labels have the records of their concurrent runs
C26_Witness ==
  /\ DOMAIN benchmarkResults = Labels
  /\ Len(benchmarkResults["npm-no-worktrees"]) = 2
  /\ benchmarkResults["npm-no-worktrees"][1].changeTimings = <<>>
  /\ benchmarkResults["npm-no-worktrees"][2].changeTimings # <<>>
  /\ Len(par.past) = 1

\* the errors of the finished runs of a label that failed, oldest first
FailedErrors(l) == SelectSeq(FinishedErrors(l), LAMBDA e : e # "none")

\* C27: benchmarkErrors has a label exactly when a finished run of the label
\* failed, and then holds the error of the most recent of the failed runs,
\* also after a later run of the label completed.
C27_MostRecentError ==
  \A l \in Labels :
    /\ (l \in DOMAIN benchmarkErrors) <=> (FailedErrors(l) # <<>>)
    /\ FailedErrors(l) # <<>> =>
         benchmarkErrors[l] = FailedErrors(l)[Len(FailedErrors(l))]

\* a label's run in the parallel bench failed, its run in an individual
\* bench completed, and the error of the first is still stored
C27_Witness ==
  /\ FinishedErrors("npm-no-worktrees")
       = <<"Timeout waiting for next check to complete", "none">>
  /\ "npm-no-worktrees" \in DOMAIN benchmarkErrors
  /\ benchmarkErrors["npm-no-worktrees"] = "Timeout waiting for next check to complete"

\* C31: every record in benchmarkResults has two samples or none.  With two,
\* they are the duration of the add round followed by the duration of the
\* remove round as the run measured them, twice the average is their sum,
\* the minimum is the smaller and the maximum the larger of them, and the
\* median lies between the two; with none, the record is a failure record
\* whose average, median, minimum and maximum are zero.
C31_TwoSamplesOrNone ==
  \A k \in 1..Len(benchmarkResults) :
    LET r  == benchmarkResults[k]
        ct == r.changeTimings
    IN  \/ /\ Len(ct) = 2
           /\ 2 * r.averageChangeTime = ct[1] + ct[2]
           /\ r.minChangeTime = (IF ct[1] <= ct[2] THEN ct[1] ELSE ct[2])
           /\ r.maxChangeTime = (IF ct[1] <= ct[2] THEN ct[2] ELSE ct[1])
           /\ r.minChangeTime <= r.medianChangeTime
           /\ r.medianChangeTime <= r.maxChangeTime
           /\ (k = Len(benchmarkResults) /\ RunFinished) =>
                (run.error = "none" /\ ct = run.changeTimings
                  /\ run.adds = 1 /\ run.removes = 1)
        \/ /\ Len(ct) = 0
           /\ r.averageChangeTime = 0 /\ r.medianChangeTime = 0
           /\ r.minChangeTime = 0 /\ r.maxChangeTime = 0

\* a run whose two rounds took different times has stored its record
C31_Witness ==
  /\ RunFinished
  /\ run.error = "none"
  /\ Len(RunRecord.changeTimings) = 2
  /\ RunRecord.minChangeTime < RunRecord.maxChangeTime

\* C32: in the worktree benchmark a wait that timed out leads to the catch
\* block only: once the run has thrown, the watcher was killed once, the
\* error is the timeout and benchmarkResults has no record; and as long as a
\* wait is rejected nothing is stored.  benchmarkResults has a record only
\* when the run returned after the watcher was killed with a sample for every
\* add batch and every remove batch, and a step that appends a record is a
\* step that kills the watcher with all these samples taken.
C32_TimeoutStoresNothing ==
  /\ [](/\ wait.state = "rejected" =>
            /\ benchmarkResults = <<>>
            /\ pc \in {"awaitInitial", "awaitAdd", "awaitRemove", "thrown"}
        /\ pc = "thrown" =>
            /\ kills = 1
            /\ benchmarkResults = <<>>
            /\ run.error = "Timeout waiting for svelte-check to complete"
        /\ benchmarkResults # <<>> =>
            /\ pc = "returned" /\ kills = 1 /\ run.error = "none"
            /\ DOMAIN benchmarkResults = {run.label}
            /\ Len(benchmarkResults[run.label]) = 1
            /\ benchmarkResults[run.label][1].batchTimings = run.batchTimings
            /\ Len(run.batchTimings) = 2 * Batches(run.files))
  /\ [][benchmarkResults' # benchmarkResults =>
          /\ kills = 0 /\ kills' = 1
          /\ Len(run'.batchTimings) = 2 * Batches(run'.files)]_vars

\* with two batches, both add batches and the first remove batch completed,
\* the wait of the second remove batch timed out, and the run has thrown
C32_Witness ==
  /\ pc = "thrown"
  /\ Batches(run.files) = 2
  /\ Len(run.batchTimings) = 3
  /\ kills = 1
  /\ benchmarkResults = <<>>

====
